---- MODULE Spec2Model ----
(***************************************************************************)
(* Model of project-settings-sync (pss): the three-way merge engine of     *)
(* src/lib/merge.ts, the env file parser and serializer of                 *)
(* src/lib/env-files.ts, the base snapshot store of                        *)
(* src/lib/base-snapshot.ts and the sync command of src/commands/sync.ts.  *)
(*                                                                         *)
(* A JavaScript string is a sequence of one-character strings, so that     *)
(* quoting, trimming and sorting are computed as the code computes them.   *)
(* A JavaScript Map is the sequence of its <<key, value>> entries in       *)
(* insertion order.                                                        *)
(***************************************************************************)
EXTENDS Integers, Sequences, FiniteSets, TLC

(***************************************************************************)
(* Bounds of the model.                                                    *)
(***************************************************************************)
\* total number of entries of the base, local and remote maps of one merge
MaxEntries == 4
\* length of a caller-supplied resolution list
MaxResolutions == 1
\* total number of entries of the base, local and remote versions of all files
\* of the project when the sync command is first run
MaxSyncEntries == 3
\* number of times the sync command saves projectConfig.lastSync
MaxSaves == 3
\* number of push and pull commands run one after the other
MaxTransfers == 2

(***************************************************************************)
(* Strings, undefined and null.                                            *)
(***************************************************************************)
\* JavaScript's undefined: one element that is no character, so it differs
\* from every string, the empty string included
Undefined == <<"undefined">>

\* The keys of the env files of the model
Keys == {<<"A">>, <<"B">>}

\* The values of a key: the empty string and two different non-empty ones
Values == {<<>>, <<"x">>, <<"y">>}

OptValues == Values \cup {Undefined}

\* Code unit order of the characters the model uses (Array.prototype.sort
\* and String comparison order strings by UTF-16 code unit)
CharCode(c) ==
  CASE c = "\n" -> 10
    [] c = " "  -> 32
    [] c = "\"" -> 34
    [] c = "#"  -> 35
    [] c = "$"  -> 36
    [] c = "'"  -> 39
    [] c = "="  -> 61
    [] c = "A"  -> 65
    [] c = "B"  -> 66
    [] c = "C"  -> 67
    [] c = "D"  -> 68
    [] c = "E"  -> 69
    [] c = "\\" -> 92
    [] c = "n"  -> 110
    [] c = "x"  -> 120
    [] c = "y"  -> 121
    [] OTHER    -> 127

RECURSIVE StrLess(_, _)
StrLess(s, t) ==
  IF t = <<>> THEN FALSE
  ELSE IF s = <<>> THEN TRUE
  ELSE IF CharCode(Head(s)) # CharCode(Head(t))
       THEN CharCode(Head(s)) < CharCode(Head(t))
       ELSE StrLess(Tail(s), Tail(t))

(***************************************************************************)
(* Map<string, string>: entries in insertion order.                        *)
(***************************************************************************)
EmptyMap == <<>>

MapKeys(m) == [i \in 1..Len(m) |-> m[i][1]]

MapKeySet(m) == {m[i][1] : i \in 1..Len(m)}

MapHas(m, k) == \E i \in 1..Len(m) : m[i][1] = k

MapGet(m, k) ==
  IF MapHas(m, k) THEN m[CHOOSE i \in 1..Len(m) : m[i][1] = k][2] ELSE Undefined

\* Map.prototype.set: an existing key keeps its position
MapSet(m, k, v) ==
  IF MapHas(m, k)
  THEN [i \in 1..Len(m) |-> IF m[i][1] = k THEN <<k, v>> ELSE m[i]]
  ELSE Append(m, <<k, v>>)

MapDelete(m, k) == SelectSeq(m, LAMBDA e : e[1] # k)

MapSize(m) == Len(m)

\* base: Map<string, string> | null
Null == [isNull |-> TRUE, map |-> EmptyMap]

Some(m) == [isNull |-> FALSE, map |-> m]

\* base?.get(key)
BaseGet(base, k) == IF base.isNull THEN Undefined ELSE MapGet(base.map, k)

\* base?.keys() ?? []
BaseKeys(base) == IF base.isNull THEN <<>> ELSE MapKeys(base.map)

\* new Set([...]): the elements in order of first occurrence
RECURSIVE Dedupe(_, _)
Dedupe(s, seen) ==
  IF s = <<>> THEN <<>>
  ELSE IF Head(s) \in seen THEN Dedupe(Tail(s), seen)
       ELSE <<Head(s)>> \o Dedupe(Tail(s), seen \cup {Head(s)})

SeqToSet(s) == {s[i] : i \in 1..Len(s)}

(***************************************************************************)
(* merge.ts: mergeKey                                                      *)
(***************************************************************************)
\* Variant of MergeKeyNoBase: the test localVal === remoteVal is missing
MergeKeyNoBaseAlwaysCollides(localVal, remoteVal) ==
  LET localExists  == localVal # Undefined
      remoteExists == remoteVal # Undefined
  IN
  IF localExists /\ remoteExists THEN
    [type |-> "conflict", conflictType |-> "new_key_collision"]
  ELSE IF localExists /\ ~remoteExists THEN
    [type |-> "auto_merged", action |-> "added_from_local", value |-> localVal]
  ELSE IF ~localExists /\ remoteExists THEN
    [type |-> "auto_merged", action |-> "added_from_remote", value |-> remoteVal]
  ELSE [type |-> "unchanged", value |-> Undefined]

\* Case 1: No base
MergeKeyNoBase(localVal, remoteVal) ==
  LET localExists  == localVal # Undefined
      remoteExists == remoteVal # Undefined
  IN
  IF localExists /\ remoteExists THEN
    IF localVal = remoteVal
    THEN [type |-> "unchanged", value |-> localVal]
    ELSE [type |-> "conflict", conflictType |-> "new_key_collision"]
  ELSE IF localExists /\ ~remoteExists THEN
    [type |-> "auto_merged", action |-> "added_from_local", value |-> localVal]
  ELSE IF ~localExists /\ remoteExists THEN
    [type |-> "auto_merged", action |-> "added_from_remote", value |-> remoteVal]
  ELSE [type |-> "unchanged", value |-> Undefined]

\* Variant of MergeKeyWithBase: the two edit_vs_delete tests are missing, so
\* that an edit on one side wins over the deletion on the other
MergeKeyWithBaseEditWins(baseVal, localVal, remoteVal) ==
  LET localChanged  == localVal # baseVal
      remoteChanged == remoteVal # baseVal
      localDeleted  == localVal = Undefined
      remoteDeleted == remoteVal = Undefined
  IN
  IF ~localChanged /\ ~remoteChanged /\ ~localDeleted /\ ~remoteDeleted THEN
    [type |-> "unchanged", value |-> baseVal]
  ELSE IF localDeleted /\ remoteDeleted THEN
    [type |-> "auto_merged", action |-> "deleted", value |-> Undefined]
  ELSE IF localDeleted /\ ~remoteChanged THEN
    [type |-> "auto_merged", action |-> "deleted", value |-> Undefined]
  ELSE IF remoteDeleted /\ ~localChanged THEN
    [type |-> "auto_merged", action |-> "deleted", value |-> Undefined]
  ELSE IF localChanged /\ ~remoteChanged /\ ~localDeleted THEN
    [type |-> "auto_merged", action |-> "updated_from_local", value |-> localVal]
  ELSE IF ~localChanged /\ remoteChanged /\ ~remoteDeleted THEN
    [type |-> "auto_merged", action |-> "updated_from_remote", value |-> remoteVal]
  ELSE IF localDeleted THEN
    [type |-> "auto_merged", action |-> "updated_from_remote", value |-> remoteVal]
  ELSE IF remoteDeleted THEN
    [type |-> "auto_merged", action |-> "updated_from_local", value |-> localVal]
  ELSE IF localVal = remoteVal THEN
    [type |-> "unchanged", value |-> localVal]
  ELSE [type |-> "conflict", conflictType |-> "divergent_edit"]

\* Variant of MergeKeyWithBase: a key both sides deleted keeps its base value
MergeKeyWithBaseKeepsDeleted(baseVal, localVal, remoteVal) ==
  LET localChanged  == localVal # baseVal
      remoteChanged == remoteVal # baseVal
      localDeleted  == localVal = Undefined
      remoteDeleted == remoteVal = Undefined
  IN
  IF ~localChanged /\ ~remoteChanged /\ ~localDeleted /\ ~remoteDeleted THEN
    [type |-> "unchanged", value |-> baseVal]
  ELSE IF localDeleted /\ remoteDeleted THEN
    [type |-> "unchanged", value |-> baseVal]
  ELSE IF localDeleted /\ ~remoteChanged THEN
    [type |-> "auto_merged", action |-> "deleted", value |-> Undefined]
  ELSE IF remoteDeleted /\ ~localChanged THEN
    [type |-> "auto_merged", action |-> "deleted", value |-> Undefined]
  ELSE IF localDeleted /\ remoteChanged THEN
    [type |-> "conflict", conflictType |-> "edit_vs_delete"]
  ELSE IF remoteDeleted /\ localChanged THEN
    [type |-> "conflict", conflictType |-> "edit_vs_delete"]
  ELSE IF localChanged /\ ~remoteChanged THEN
    [type |-> "auto_merged", action |-> "updated_from_local", value |-> localVal]
  ELSE IF ~localChanged /\ remoteChanged THEN
    [type |-> "auto_merged", action |-> "updated_from_remote", value |-> remoteVal]
  ELSE IF localVal = remoteVal THEN
    [type |-> "unchanged", value |-> localVal]
  ELSE [type |-> "conflict", conflictType |-> "divergent_edit"]

\* Case 2: Have base - standard three-way merge
MergeKeyWithBase(baseVal, localVal, remoteVal) ==
  LET localChanged  == localVal # baseVal
      remoteChanged == remoteVal # baseVal
      localDeleted  == localVal = Undefined
      remoteDeleted == remoteVal = Undefined
  IN
  IF ~localChanged /\ ~remoteChanged /\ ~localDeleted /\ ~remoteDeleted THEN
    [type |-> "unchanged", value |-> baseVal]
  ELSE IF localDeleted /\ remoteDeleted THEN
    [type |-> "auto_merged", action |-> "deleted", value |-> Undefined]
  ELSE IF localDeleted /\ ~remoteChanged THEN
    [type |-> "auto_merged", action |-> "deleted", value |-> Undefined]
  ELSE IF remoteDeleted /\ ~localChanged THEN
    [type |-> "auto_merged", action |-> "deleted", value |-> Undefined]
  ELSE IF localDeleted /\ remoteChanged THEN
    [type |-> "conflict", conflictType |-> "edit_vs_delete"]
  ELSE IF remoteDeleted /\ localChanged THEN
    [type |-> "conflict", conflictType |-> "edit_vs_delete"]
  ELSE IF localChanged /\ ~remoteChanged THEN
    [type |-> "auto_merged", action |-> "updated_from_local", value |-> localVal]
  ELSE IF ~localChanged /\ remoteChanged THEN
    [type |-> "auto_merged", action |-> "updated_from_remote", value |-> remoteVal]
  ELSE IF localVal = remoteVal THEN
    [type |-> "unchanged", value |-> localVal]
  ELSE [type |-> "conflict", conflictType |-> "divergent_edit"]

mergeKey(key, baseVal, localVal, remoteVal) ==
  IF baseVal = Undefined
  THEN MergeKeyNoBase(localVal, remoteVal)
  ELSE MergeKeyWithBase(baseVal, localVal, remoteVal)

(***************************************************************************)
(* merge.ts: threeWayMergeEnvFile                                          *)
(***************************************************************************)
\* Variant of AllKeys: every key of the model, whether or not a version has it
AllKeysEveryKey(base, local, remote) == <<<<"A">>, <<"B">>>>

\* Variant of AllKeys: an array instead of a Set, a key is listed once for
\* each version that has it
AllKeysWithRepeats(base, local, remote) ==
  BaseKeys(base) \o MapKeys(local) \o MapKeys(remote)

\* const allKeys = new Set([...(base?.keys() ?? []), ...local.keys(), ...remote.keys()])
AllKeys(base, local, remote) ==
  Dedupe(BaseKeys(base) \o MapKeys(local) \o MapKeys(remote), {})

\* Variant of MergeStep: the provisional value of a conflicted key is taken
\* from remote instead of local
MergeStepRemotePreview(acc, key, base, local, remote) ==
  LET baseVal   == BaseGet(base, key)
      localVal  == MapGet(local, key)
      remoteVal == MapGet(remote, key)
      result    == mergeKey(key, baseVal, localVal, remoteVal)
  IN
  IF result.type = "conflict" THEN
    [acc EXCEPT
       !.conflicts = Append(@, [key |-> key, conflictType |-> result.conflictType,
                                baseValue |-> baseVal, localValue |-> localVal,
                                remoteValue |-> remoteVal]),
       !.merged = IF remoteVal # Undefined THEN MapSet(@, key, remoteVal) ELSE @]
  ELSE IF result.type = "auto_merged" THEN
    [acc EXCEPT
       !.merged = IF result.value # Undefined THEN MapSet(@, key, result.value) ELSE @,
       !.autoMerged = Append(@, [key |-> key, action |-> result.action,
                                 value |-> result.value])]
  ELSE
    [acc EXCEPT
       !.merged = IF result.value # Undefined THEN MapSet(@, key, result.value) ELSE @]

\* Variant of MergeStep: the tests "!== undefined" are tests of truthiness, so
\* that an empty string is not set in merged
MergeStepTruthy(acc, key, base, local, remote) ==
  LET baseVal   == BaseGet(base, key)
      localVal  == MapGet(local, key)
      remoteVal == MapGet(remote, key)
      result    == mergeKey(key, baseVal, localVal, remoteVal)
      Set(m, v) == IF v # Undefined /\ v # <<>> THEN MapSet(m, key, v) ELSE m
  IN
  IF result.type = "conflict" THEN
    [acc EXCEPT
       !.conflicts = Append(@, [key |-> key, conflictType |-> result.conflictType,
                                baseValue |-> baseVal, localValue |-> localVal,
                                remoteValue |-> remoteVal]),
       !.merged = Set(@, localVal)]
  ELSE IF result.type = "auto_merged" THEN
    [acc EXCEPT
       !.merged = Set(@, result.value),
       !.autoMerged = Append(@, [key |-> key, action |-> result.action,
                                 value |-> result.value])]
  ELSE
    [acc EXCEPT !.merged = Set(@, result.value)]

\* One iteration of the loop over allKeys: acc holds merged, conflicts, autoMerged
MergeStep(acc, key, base, local, remote) ==
  LET baseVal   == BaseGet(base, key)
      localVal  == MapGet(local, key)
      remoteVal == MapGet(remote, key)
      result    == mergeKey(key, baseVal, localVal, remoteVal)
  IN
  IF result.type = "conflict" THEN
    [acc EXCEPT
       !.conflicts = Append(@, [key |-> key, conflictType |-> result.conflictType,
                                baseValue |-> baseVal, localValue |-> localVal,
                                remoteValue |-> remoteVal]),
       !.merged = IF localVal # Undefined THEN MapSet(@, key, localVal) ELSE @]
  ELSE IF result.type = "auto_merged" THEN
    [acc EXCEPT
       !.merged = IF result.value # Undefined THEN MapSet(@, key, result.value) ELSE @,
       !.autoMerged = Append(@, [key |-> key, action |-> result.action,
                                 value |-> result.value])]
  ELSE
    [acc EXCEPT
       !.merged = IF result.value # Undefined THEN MapSet(@, key, result.value) ELSE @]

RECURSIVE MergeLoop(_, _, _, _, _)
MergeLoop(acc, keys, base, local, remote) ==
  IF keys = <<>> THEN acc
  ELSE MergeLoop(MergeStep(acc, Head(keys), base, local, remote),
                 Tail(keys), base, local, remote)

\* Variant of MergeStatus: the auto-merges are looked at before the conflicts
MergeStatusAutoFirst(conflicts, autoMerged) ==
  IF Len(autoMerged) > 0 THEN "auto_merged"
  ELSE IF Len(conflicts) > 0 THEN "conflicted"
  ELSE "clean"

\* status: conflicts.length > 0 ? "conflicted" : autoMerged.length > 0 ? "auto_merged" : "clean"
MergeStatus(conflicts, autoMerged) ==
  IF Len(conflicts) > 0 THEN "conflicted"
  ELSE IF Len(autoMerged) > 0 THEN "auto_merged"
  ELSE "clean"

threeWayMergeEnvFile(fileName, base, local, remote) ==
  LET acc == MergeLoop([merged |-> EmptyMap, conflicts |-> <<>>, autoMerged |-> <<>>],
                       AllKeys(base, local, remote), base, local, remote)
  IN [fileName   |-> fileName,
      status     |-> MergeStatus(acc.conflicts, acc.autoMerged),
      merged     |-> acc.merged,
      conflicts  |-> acc.conflicts,
      autoMerged |-> acc.autoMerged]

(***************************************************************************)
(* merge.ts: threeWayMergeTextFile (opaque variant of the driver)          *)
(***************************************************************************)
\* The fixed key that stands for the whole file in the entries of a text file
TextFileKey == <<"*">>

\* The key rule applied once to the whole content: base is null or a string,
\* local and remote are a string or undefined
threeWayMergeTextFile(fileName, baseContent, localContent, remoteContent) ==
  LET baseVal == IF baseContent = <<"null">> THEN Undefined ELSE baseContent
      result  == mergeKey(TextFileKey, baseVal, localContent, remoteContent)
      OrNull(v) == IF v # Undefined THEN v ELSE <<"null">>
      conflicts ==
        IF result.type = "conflict"
        THEN <<[key |-> TextFileKey, conflictType |-> result.conflictType,
                baseValue |-> baseVal, localValue |-> localContent,
                remoteValue |-> remoteContent]>>
        ELSE <<>>
      autoMerged ==
        IF result.type = "auto_merged"
        THEN <<[key |-> TextFileKey, action |-> result.action, value |-> result.value]>>
        ELSE <<>>
  IN [fileName      |-> fileName,
      kind          |-> "text",
      status        |-> MergeStatus(conflicts, autoMerged),
      merged        |-> EmptyMap,
      mergedContent |-> IF result.type = "conflict" THEN OrNull(localContent)
                        ELSE OrNull(result.value),
      conflicts     |-> conflicts,
      autoMerged    |-> autoMerged]

(***************************************************************************)
(* merge.ts: applyResolutions, allConflictsResolved, resolveAllConflicts   *)
(***************************************************************************)
\* mergeResult.conflicts.find((c) => c.key === key): the first match, or no match
HasConflict(conflicts, key) == \E i \in 1..Len(conflicts) : conflicts[i].key = key

FindConflict(conflicts, key) ==
  conflicts[CHOOSE i \in 1..Len(conflicts) :
              /\ conflicts[i].key = key
              /\ \A j \in 1..(i - 1) : conflicts[j].key # key]

\* Variant of SetOrDelete: the else branch, result.delete(key), is missing
SetOrKeep(result, key, value) ==
  IF value # Undefined THEN MapSet(result, key, value) ELSE result

\* if (value !== undefined) result.set(key, value) else result.delete(key)
SetOrDelete(result, key, value) ==
  IF value # Undefined THEN MapSet(result, key, value) ELSE MapDelete(result, key)

\* Variant of ApplyOne: a manual resolution is applied without looking for
\* its conflict
ApplyOneUnguardedManual(result, conflicts, resolution) ==
  IF resolution.choice = "manual"
  THEN SetOrDelete(result, resolution.key, resolution.manualValue)
  ELSE IF ~HasConflict(conflicts, resolution.key) THEN result
  ELSE LET conflict == FindConflict(conflicts, resolution.key) IN
       CASE resolution.choice = "local" ->
              SetOrDelete(result, resolution.key, conflict.localValue)
         [] resolution.choice = "remote" ->
              SetOrDelete(result, resolution.key, conflict.remoteValue)
         [] resolution.choice = "base" ->
              SetOrDelete(result, resolution.key, conflict.baseValue)
         [] OTHER -> result

\* One iteration of the loop over resolutions
ApplyOne(result, conflicts, resolution) ==
  IF ~HasConflict(conflicts, resolution.key) THEN result
  ELSE LET conflict == FindConflict(conflicts, resolution.key) IN
       CASE resolution.choice = "local" ->
              SetOrDelete(result, resolution.key, conflict.localValue)
         [] resolution.choice = "remote" ->
              SetOrDelete(result, resolution.key, conflict.remoteValue)
         [] resolution.choice = "base" ->
              SetOrDelete(result, resolution.key, conflict.baseValue)
         [] resolution.choice = "manual" ->
              SetOrDelete(result, resolution.key, resolution.manualValue)
         [] OTHER -> result

RECURSIVE ApplyLoop(_, _, _)
ApplyLoop(result, conflicts, resolutions) ==
  IF resolutions = <<>> THEN result
  ELSE ApplyLoop(ApplyOne(result, conflicts, Head(resolutions)),
                 conflicts, Tail(resolutions))

\* Returns the resolved map; no branch of the code throws
applyResolutions(mergeResult, resolutions) ==
  ApplyLoop(mergeResult.merged, mergeResult.conflicts, resolutions)

\* The arguments of threeWayMergeEnvFile after the call: the function builds
\* merged, conflicts and autoMerged anew and only reads keys() and get() of
\* the three maps
AfterThreeWayMerge(base, local, remote) ==
  [base |-> base, local |-> local, remote |-> remote]

\* applyResolutions with `const result = mergeResult.merged`: set and delete
\* act on the map of the argument
AfterApplyResolutionsAliased(mergeResult, resolutions) ==
  [mergeResult |-> [mergeResult EXCEPT !.merged = applyResolutions(mergeResult, resolutions)],
   resolutions |-> resolutions]

\* The arguments of applyResolutions after the call: result is a new Map
\* copied from mergeResult.merged, set and delete act on the copy, and
\* conflicts and resolutions are only read (find, for-of)
AfterApplyResolutions(mergeResult, resolutions) ==
  [mergeResult |-> mergeResult, resolutions |-> resolutions]

HasResolution(resolutions, key) ==
  \E i \in 1..Len(resolutions) : resolutions[i].key = key

\* resolutions.find((r) => r.key === key): the first match
FindResolution(resolutions, key) ==
  resolutions[CHOOSE i \in 1..Len(resolutions) :
                /\ resolutions[i].key = key
                /\ \A j \in 1..(i - 1) : resolutions[j].key # key]

\* Variant of allConflictsResolved: the test on the choice skip is missing
allConflictsResolvedCountsSkip(mergeResult, resolutions) ==
  \A i \in 1..Len(mergeResult.conflicts) :
     HasResolution(resolutions, mergeResult.conflicts[i].key)

allConflictsResolved(mergeResult, resolutions) ==
  \A i \in 1..Len(mergeResult.conflicts) :
     /\ HasResolution(resolutions, mergeResult.conflicts[i].key)
     /\ FindResolution(resolutions, mergeResult.conflicts[i].key).choice # "skip"

\* Variant of resolveAllConflicts: the strategy is ignored
resolveAllConflictsAlwaysLocal(mergeResult, strategy) ==
  [i \in 1..Len(mergeResult.conflicts) |->
     [key         |-> mergeResult.conflicts[i].key,
      choice      |-> "local",
      manualValue |-> Undefined]]

resolveAllConflicts(mergeResult, strategy) ==
  [i \in 1..Len(mergeResult.conflicts) |->
     [key         |-> mergeResult.conflicts[i].key,
      choice      |-> IF strategy = "local" THEN "local" ELSE "remote",
      manualValue |-> Undefined]]

(***************************************************************************)
(* env-files.ts: parseEnvFile                                              *)
(***************************************************************************)
\* White space of String.prototype.trim, among the characters of the model
IsSpace(c) == c \in {" ", "\n"}

RECURSIVE TrimStart(_)
TrimStart(s) ==
  IF s # <<>> /\ IsSpace(Head(s)) THEN TrimStart(Tail(s)) ELSE s

RECURSIVE TrimEnd(_)
TrimEnd(s) ==
  IF s # <<>> /\ IsSpace(s[Len(s)]) THEN TrimEnd(SubSeq(s, 1, Len(s) - 1)) ELSE s

Trim(s) == TrimEnd(TrimStart(s))

\* s.indexOf(c), counted from 1; 0 when c does not occur
IndexOf(s, c) ==
  IF \E i \in 1..Len(s) : s[i] = c
  THEN CHOOSE i \in 1..Len(s) : s[i] = c /\ \A j \in 1..(i - 1) : s[j] # c
  ELSE 0

Includes(s, c) == \E i \in 1..Len(s) : s[i] = c

\* content.split("\n")
RECURSIVE SplitLines(_)
SplitLines(s) ==
  LET nl == IndexOf(s, "\n") IN
  IF nl = 0 THEN <<s>>
  ELSE <<SubSeq(s, 1, nl - 1)>> \o SplitLines(SubSeq(s, nl + 1, Len(s)))

StartsWith(s, c) == s # <<>> /\ Head(s) = c

EndsWith(s, c) == s # <<>> /\ s[Len(s)] = c

\* value.slice(1, -1) when the value starts and ends with the same quote
Unquote(value) ==
  IF \/ StartsWith(value, "\"") /\ EndsWith(value, "\"")
     \/ StartsWith(value, "'") /\ EndsWith(value, "'")
  THEN SubSeq(value, 2, Len(value) - 1)
  ELSE value

\* The body of the loop over the lines
ParseLine(vars, line) ==
  LET trimmed == Trim(line)
      eqIndex == IndexOf(trimmed, "=")
  IN
  IF trimmed = <<>> \/ StartsWith(trimmed, "#") THEN vars
  ELSE IF eqIndex = 0 THEN vars
  ELSE MapSet(vars,
              Trim(SubSeq(trimmed, 1, eqIndex - 1)),
              Unquote(Trim(SubSeq(trimmed, eqIndex + 1, Len(trimmed)))))

RECURSIVE ParseLines(_, _)
ParseLines(vars, lines) ==
  IF lines = <<>> THEN vars
  ELSE ParseLines(ParseLine(vars, Head(lines)), Tail(lines))

parseEnvFile(content) == ParseLines(EmptyMap, SplitLines(content))

(***************************************************************************)
(* env-files.ts: serializeEnvFile, formatEnvValue                          *)
(***************************************************************************)
\* .replace(/\\/g, "\\\\").replace(/"/g, '\\"').replace(/\n/g, "\\n")
RECURSIVE Escape(_)
Escape(s) ==
  IF s = <<>> THEN <<>>
  ELSE (CASE Head(s) = "\\" -> <<"\\", "\\">>
          [] Head(s) = "\"" -> <<"\\", "\"">>
          [] Head(s) = "\n" -> <<"\\", "n">>
          [] OTHER -> <<Head(s)>>) \o Escape(Tail(s))

formatEnvValue(value) ==
  LET needsQuoting ==
        \/ Includes(value, " ")
        \/ Includes(value, "\"")
        \/ Includes(value, "'")
        \/ Includes(value, "#")
        \/ Includes(value, "$")
        \/ Includes(value, "\n")
        \/ Includes(value, "\\")
        \/ value = <<>>
  IN IF ~needsQuoting THEN value ELSE <<"\"">> \o Escape(value) \o <<"\"">>

\* Array.from(vars.keys()).sort()
RECURSIVE SortStrings(_)
SortStrings(S) ==
  IF S = {} THEN <<>>
  ELSE LET least == CHOOSE k \in S : \A o \in S \ {k} : StrLess(k, o)
       IN <<least>> \o SortStrings(S \ {least})

\* lines.join("\n") + "\n"
RECURSIVE JoinLines(_)
JoinLines(lines) ==
  IF lines = <<>> THEN <<>>
  ELSE IF Len(lines) = 1 THEN Head(lines)
  ELSE Head(lines) \o <<"\n">> \o JoinLines(Tail(lines))

serializeEnvFile(vars) ==
  LET sortedKeys == SortStrings(MapKeySet(vars))
      lines == [i \in 1..Len(sortedKeys) |->
                  sortedKeys[i] \o <<"=">> \o formatEnvValue(MapGet(vars, sortedKeys[i]))]
  IN JoinLines(lines) \o <<"\n">>

(***************************************************************************)
(* crypto.ts: hashFile; manifest.ts: getManifestFingerprint                *)
(***************************************************************************)
\* The file names of the project, in the order of localeCompare
FileNameSeq == <<".env", ".env.local">>

FileNames == {FileNameSeq[i] : i \in 1..Len(FileNameSeq)}

NameIndex(name) == CHOOSE i \in 1..Len(FileNameSeq) : FileNameSeq[i] = name

ProjectName == "project"

\* A generic hash of the content: equal contents, equal hashes, and no collisions
hashFile(content) == [sha256 |-> content]

\* Insertion of an entry into a list sorted by name (Array.prototype.sort is stable)
RECURSIVE InsertByName(_, _)
InsertByName(sorted, e) ==
  IF sorted = <<>> THEN <<e>>
  ELSE IF NameIndex(e.name) < NameIndex(Head(sorted).name)
       THEN <<e>> \o sorted
       ELSE <<Head(sorted)>> \o InsertByName(Tail(sorted), e)

\* Variant of SortByName: the files are not sorted
SortByNameKeepsOrder(entries) == entries

RECURSIVE SortByName(_)
SortByName(entries) ==
  IF entries = <<>> THEN <<>>
  ELSE InsertByName(SortByName(SubSeq(entries, 1, Len(entries) - 1)),
                    entries[Len(entries)])

\* JSON.stringify of version, projectName and the sorted (name, hash) pairs
getManifestFingerprint(manifest) ==
  [version     |-> manifest.version,
   projectName |-> manifest.projectName,
   files       |-> SortByName([i \in 1..Len(manifest.files) |->
                                 [name |-> manifest.files[i].name,
                                  hash |-> manifest.files[i].hash]])]

(***************************************************************************)
(* base-snapshot.ts                                                        *)
(***************************************************************************)
NoSnapshot == [isNull |-> TRUE, files |-> <<>>, remoteManifestHash |-> hashFile(<<>>)]

NoManifest == [isNull |-> TRUE, version |-> 1, projectName |-> ProjectName, files |-> <<>>]

\* loadAllBaseContents: fileName -> content of the snapshot's files that have a base file
RECURSIVE LoadBaseLoop(_, _, _)
LoadBaseLoop(contents, files, store) ==
  IF files = <<>> THEN contents
  ELSE LoadBaseLoop(IF store[Head(files).name] # Undefined
                    THEN MapSet(contents, Head(files).name, store[Head(files).name])
                    ELSE contents,
                    Tail(files), store)

loadAllBaseContents(snapshot, store) ==
  IF snapshot.isNull THEN EmptyMap ELSE LoadBaseLoop(EmptyMap, snapshot.files, store)

\* updateBaseSnapshot: the base files it saves ...
RECURSIVE SaveBaseFiles(_, _)
SaveBaseFiles(store, files) ==
  IF files = <<>> THEN store
  ELSE SaveBaseFiles([store EXCEPT ![Head(files).name] = Head(files).content], Tail(files))

\* ... and the snapshot metadata it saves
NewSnapshot(files, remoteManifestHash) ==
  [isNull |-> FALSE, files |-> files, remoteManifestHash |-> remoteManifestHash]

(***************************************************************************)
(* commands/sync.ts                                                        *)
(***************************************************************************)
\* null, as getMergedContent returns it
NullContent == <<"null">>

\* JavaScript truthiness of string | undefined
Truthy(content) == content # Undefined /\ content # <<>>

\* discoverProjectFiles: the files that exist, sorted by name
LocalFileList(files) ==
  SelectSeq([i \in 1..Len(FileNameSeq) |->
               [name |-> FileNameSeq[i], content |-> files[FileNameSeq[i]]]],
            LAMBDA f : f.content # Undefined)

\* 2. Download all remote file contents; a file that cannot be downloaded is skipped
RECURSIVE DownloadLoop(_, _, _)
DownloadLoop(contents, files, objects) ==
  IF files = <<>> THEN contents
  ELSE DownloadLoop(IF objects[Head(files).name] # Undefined
                    THEN MapSet(contents, Head(files).name, objects[Head(files).name])
                    ELSE contents,
                    Tail(files), objects)

DownloadRemoteContents(manifest, objects) ==
  IF manifest.isNull THEN EmptyMap ELSE DownloadLoop(EmptyMap, manifest.files, objects)

\* FileMergeResult of an env file as declared in types/index.ts: kind is "env"
\* and there is no mergedContent
EnvResult(r) ==
  [fileName      |-> r.fileName,
   kind          |-> "env",
   status        |-> r.status,
   merged        |-> r.merged,
   mergedContent |-> Undefined,
   conflicts     |-> r.conflicts,
   autoMerged    |-> r.autoMerged]

\* 3. and 4. the three-way merge of every file name of local, remote and base
SyncMergeFile(fileName, localList, remoteContents, baseContents) ==
  LET localContent  == IF \E i \in 1..Len(localList) : localList[i].name = fileName
                       THEN localList[CHOOSE i \in 1..Len(localList) :
                                        localList[i].name = fileName].content
                       ELSE Undefined
      remoteContent == MapGet(remoteContents, fileName)
      baseContent   == MapGet(baseContents, fileName)
  IN EnvResult(threeWayMergeEnvFile(
       fileName,
       IF baseContent # Undefined THEN Some(parseEnvFile(baseContent)) ELSE Null,
       IF Truthy(localContent) THEN parseEnvFile(localContent) ELSE EmptyMap,
       IF Truthy(remoteContent) THEN parseEnvFile(remoteContent) ELSE EmptyMap))

SyncMergeResults(localList, remoteContents, baseContents) ==
  LET allFileNames ==
        Dedupe([i \in 1..Len(localList) |-> localList[i].name]
               \o MapKeys(remoteContents) \o MapKeys(baseContents), {})
  IN [i \in 1..Len(allFileNames) |->
        SyncMergeFile(allFileNames[i], localList, remoteContents, baseContents)]

\* Variant of createSyncResult: auto-merges alone require user action too
createSyncResultAutoMergeActs(fileMergeResults) ==
  LET hasConflicts ==
        \E i \in 1..Len(fileMergeResults) : Len(fileMergeResults[i].conflicts) > 0
  IN [files              |-> fileMergeResults,
      hasConflicts       |-> hasConflicts,
      requiresUserAction |->
        \E i \in 1..Len(fileMergeResults) :
           fileMergeResults[i].status # "clean"]

createSyncResult(fileMergeResults) ==
  LET hasConflicts ==
        \E i \in 1..Len(fileMergeResults) : Len(fileMergeResults[i].conflicts) > 0
      requiresUserAction == hasConflicts
  IN [files              |-> fileMergeResults,
      hasConflicts       |-> hasConflicts,
      requiresUserAction |-> requiresUserAction]

\* createSyncResult(mergeResults).hasConflicts
HasConflicts(results) == createSyncResult(results).hasConflicts

\* result.status = result.autoMerged.length > 0 ? "auto_merged" : "clean"
BatchStatus(autoMerged) == IF Len(autoMerged) > 0 THEN "auto_merged" ELSE "clean"

\* The body of the --ours / --theirs loops: the resolutions are computed and
\* applied, the map applyResolutions returns is dropped, and result.merged
\* stays as threeWayMergeEnvFile left it
BatchResolve(result, strategy) ==
  LET resolutions == resolveAllConflicts(result, strategy)
      dropped     == applyResolutions(result, resolutions)
  IN [result EXCEPT !.conflicts = <<>>,
                    !.status = BatchStatus(result.autoMerged)]

\* Variant of getMergedContent: the kind of the file is not looked at
getMergedContentEnvOnly(result) ==
  IF MapSize(result.merged) = 0 THEN NullContent
  ELSE serializeEnvFile(result.merged)

getMergedContent(result) ==
  IF result.kind = "env"
  THEN IF MapSize(result.merged) = 0 THEN NullContent
       ELSE serializeEnvFile(result.merged)
  ELSE IF result.mergedContent # Undefined THEN result.mergedContent ELSE NullContent

\* 7. const hasChanges = mergeResults.some(...)
HasChanges(results) ==
  \E i \in 1..Len(results) :
     results[i].status # "clean" \/ Len(results[i].autoMerged) > 0

\* The results that have content, with that content: what step 9 writes and uploads
Applied(results) ==
  LET contents == [i \in 1..Len(results) |-> getMergedContent(results[i])]
  IN SelectSeq([i \in 1..Len(results) |->
                  [name    |-> results[i].fileName,
                   hash    |-> hashFile(contents[i]),
                   content |-> contents[i]]],
               LAMBDA f : f.content # NullContent)

RECURSIVE WriteFiles(_, _)
WriteFiles(files, applied) ==
  IF applied = <<>> THEN files
  ELSE WriteFiles([files EXCEPT ![Head(applied).name] = Head(applied).content],
                  Tail(applied))

NewManifest(applied) ==
  [isNull      |-> FALSE,
   version     |-> 1,
   projectName |-> ProjectName,
   files       |-> [i \in 1..Len(applied) |->
                      [name |-> applied[i].name, hash |-> applied[i].hash]]]

NoFiles == [f \in FileNames |-> Undefined]

\* No sync has run: there is no SyncResult
NoSyncResult == [files |-> <<>>, hasConflicts |-> FALSE, requiresUserAction |-> FALSE]

(***************************************************************************)
(* commands/push.ts and commands/pull.ts                                   *)
(***************************************************************************)
\* JSON.stringify(manifest): the manifest as stored, its files in their order
\* and with the fields the fingerprint leaves out
ManifestJson(manifest) ==
  [version     |-> manifest.version,
   projectName |-> manifest.projectName,
   files       |-> [i \in 1..Len(manifest.files) |->
                      [name |-> manifest.files[i].name,
                       hash |-> manifest.files[i].hash,
                       size |-> Len(manifest.files[i].hash.sha256)]]]

\* projectFiles.filter((f) => filterNames.includes(f.name))
FilterByName(files, names) == SelectSeq(files, LAMBDA f : f.name \in names)

\* push: the manifest a failed download leaves
EmptyManifest ==
  [isNull |-> FALSE, version |-> 1, projectName |-> ProjectName, files |-> <<>>]

\* Variant of RemoteChanged: the test of flags.force is the wrong way round
RemoteChangedWhenForced(snapshot, manifest, force) ==
  /\ ~snapshot.isNull
  /\ ~manifest.isNull
  /\ force
  /\ snapshot.remoteManifestHash # hashFile(getManifestFingerprint(manifest))
  /\ snapshot.remoteManifestHash # hashFile(ManifestJson(manifest))

\* push: const remoteChanged = baseHash && baseHash !== remoteManifestHash &&
\*         (!legacyManifestHash || baseHash !== legacyManifestHash)
\* under baseSnapshot && remoteManifestHash && !flags.force
RemoteChanged(snapshot, manifest, force) ==
  /\ ~snapshot.isNull
  /\ ~manifest.isNull
  /\ ~force
  /\ snapshot.remoteManifestHash # hashFile(getManifestFingerprint(manifest))
  /\ snapshot.remoteManifestHash # hashFile(ManifestJson(manifest))

\* push: manifest.files[existingIndex] = entry, or manifest.files.push(entry)
UpsertEntry(files, entry) ==
  IF \E i \in 1..Len(files) : files[i].name = entry.name
  THEN [i \in 1..Len(files) |-> IF files[i].name = entry.name THEN entry ELSE files[i]]
  ELSE Append(files, entry)

RECURSIVE UpsertEntries(_, _)
UpsertEntries(files, entries) ==
  IF entries = <<>> THEN files
  ELSE UpsertEntries(UpsertEntry(files, Head(entries)), Tail(entries))

\* push: the entries of the files it uploads
PushEntries(projectFiles) ==
  [i \in 1..Len(projectFiles) |->
     [name    |-> projectFiles[i].name,
      hash    |-> hashFile(projectFiles[i].content),
      content |-> projectFiles[i].content]]

\* The (name, hash) part of entries
NameAndHash(entries) ==
  [i \in 1..Len(entries) |-> [name |-> entries[i].name, hash |-> entries[i].hash]]

\* pull: the test for unpushed local changes, under baseContents.size > 0 && !flags.force
HasLocalChanges(localList, baseContents, force) ==
  /\ MapSize(baseContents) > 0
  /\ ~force
  /\ \E i \in 1..Len(localList) :
        \/ MapGet(baseContents, localList[i].name) = Undefined
        \/ hashFile(localList[i].content)
             # hashFile(MapGet(baseContents, localList[i].name))

\* pull: the files of the download loop up to the first one that cannot be
\* downloaded, each with its content
RECURSIVE PullLoop(_, _)
PullLoop(filesToPull, objects) ==
  IF filesToPull = <<>> THEN <<>>
  ELSE IF objects[Head(filesToPull).name] = Undefined THEN <<>>
  ELSE <<[name    |-> Head(filesToPull).name,
          hash    |-> Head(filesToPull).hash,
          content |-> objects[Head(filesToPull).name]]>>
       \o PullLoop(Tail(filesToPull), objects)

\* No text file has been merged
NoTextMerge ==
  [done |-> FALSE, base |-> Undefined, local |-> Undefined, remote |-> Undefined,
   result |-> [fileName |-> "", kind |-> "text", status |-> "none", merged |-> EmptyMap,
               mergedContent |-> Undefined, conflicts |-> <<>>, autoMerged |-> <<>>],
   content |-> Undefined]

\* No fingerprint has been computed
NoFingerprints ==
  [done |-> FALSE, first |-> NoManifest, second |-> NoManifest,
   firstFingerprint |-> <<>>, secondFingerprint |-> <<>>]

\* No push or pull has run
NoTransfer ==
  [command |-> "none", force |-> FALSE, dryRun |-> FALSE, names |-> {}, exit |-> "none",
   count |-> 0,
   before |-> [localFiles |-> NoFiles, remoteManifest |-> NoManifest,
               remoteObjects |-> NoFiles, baseSnapshot |-> NoSnapshot,
               baseFileStore |-> NoFiles, lastSync |-> 0]]

(***************************************************************************)
(* State.                                                                  *)
(***************************************************************************)
VARIABLES
  pc,           \* position of the caller of the merge engine
  base,         \* base argument of threeWayMergeEnvFile (Null or Some(map))
  local,        \* local argument
  remote,       \* remote argument
  mergeResult,  \* the FileMergeResult returned by threeWayMergeEnvFile
  resolutions,  \* the ConflictResolution[] handed to applyResolutions
  origin,       \* who made resolutions: "local", "remote" (batch) or "caller"
  resolved,     \* the map returned by applyResolutions
  outcome,      \* how applyResolutions ended: "returned" or "threw"
  allResolved,  \* the boolean returned by allConflictsResolved
  remerged,     \* the FileMergeResult of a second call of threeWayMergeEnvFile
  localFiles,     \* the project directory: file name -> content, or Undefined
  remoteManifest, \* the manifest in the remote store, or NoManifest
  remoteObjects,  \* the (decrypted) files in the remote store
  baseSnapshot,   \* .pss/snapshot.json, or NoSnapshot
  baseFileStore,  \* .pss/base/<name>.base: file name -> content, or Undefined
  lastSync,       \* how often projectConfig.lastSync has been saved
  syncExit,       \* how the last sync run ended
  flags,          \* the flags of the last sync run
  reported,       \* the merge results of the last run as displayMergeSummary showed them
  syncResult,     \* the SyncResult createSyncResult returned in the last run
  mergeResults,   \* the merge results as the last run held them after step 6
  written,        \* what the last run wrote to the project directory
  uploaded,       \* what the last run uploaded to the remote store
  recorded,       \* what the last run recorded in the base snapshot
  transfer,       \* the last push or pull: its flags, its end, and the stores before it
  fingerprints,   \* two manifests and the fingerprints getManifestFingerprint gave them
  failedDownloads, \* the files whose download or decryption threw in the last sync run
  textMerge,      \* the three versions of a text file, its merge result and merged content
  inFlight,       \* a push or sync between its downloads and its uploads, and what
                  \* another machine uploaded meanwhile
  roundTrip       \* an env file, the map parsed from it, and the map parsed from
                  \* what serializeEnvFile writes for that map

engineVars == <<pc, base, local, remote, mergeResult, resolutions, origin, resolved,
                outcome, allResolved, remerged>>

storeVars == <<localFiles, remoteManifest, remoteObjects, baseSnapshot, baseFileStore,
               lastSync>>

runVars == <<syncExit, flags, reported, syncResult, mergeResults, written, uploaded,
             recorded, transfer, fingerprints, failedDownloads,
             textMerge, inFlight, roundTrip>>

vars == <<engineVars, storeVars, runVars>>

(***************************************************************************)
(* Inputs of the merge engine.                                             *)
(***************************************************************************)
\* Permutations of a set of keys, as sequences
Orders(S) ==
  {o \in [1..Cardinality(S) -> S] : \A i, j \in 1..Cardinality(S) : i # j => o[i] # o[j]}

\* Every map over a set of keys of the model, in every insertion order
InputMaps ==
  UNION {UNION {{[i \in 1..Len(o) |-> <<o[i], f[o[i]]>>] : o \in Orders(S)} :
                  f \in [S -> Values]} : S \in SUBSET Keys}

BaseInputs == {Null} \cup {Some(m) : m \in InputMaps}

NoResult == [fileName |-> "", status |-> "none", merged |-> EmptyMap,
             conflicts |-> <<>>, autoMerged |-> <<>>]

Choices == {"local", "remote", "base", "manual", "skip"}

ManualValues == {Undefined, <<>>, <<"x">>}

\* ConflictResolution: manualValue is given with choice manual only, if at all
Resolutions ==
  {[key |-> k, choice |-> c, manualValue |-> Undefined] :
      k \in Keys, c \in Choices}
  \cup {[key |-> k, choice |-> "manual", manualValue |-> v] :
      k \in Keys, v \in ManualValues}

ResolutionLists == UNION {[1..n -> Resolutions] : n \in 0..MaxResolutions}

FileName == ".env"

NoFlags == [ours |-> FALSE, theirs |-> FALSE, dryRun |-> FALSE, interactive |-> TRUE]

\* No entry of another machine
NoOther == [name |-> "", hash |-> hashFile(Undefined)]

\* No command between its downloads and its uploads
NoInFlight ==
  [step |-> "idle", command |-> "none", names |-> {}, force |-> FALSE, flags |-> NoFlags,
   manifest |-> NoManifest, objects |-> NoFiles, other |-> NoOther]

\* No env file under test
NoRoundTrip ==
  [step |-> "none", content |-> <<>>, vars |-> EmptyMap, serialized |-> <<>>,
   reparsed |-> EmptyMap]

\* The merge engine is not in use
EngineOff ==
  /\ pc = "off"
  /\ base = Null
  /\ local = EmptyMap
  /\ remote = EmptyMap
  /\ mergeResult = NoResult
  /\ resolutions = <<>>
  /\ origin = "none"
  /\ resolved = EmptyMap
  /\ outcome = "none"
  /\ allResolved = FALSE
  /\ remerged = NoResult

\* The sync command is not in use
SyncOff ==
  /\ localFiles = NoFiles
  /\ remoteManifest = NoManifest
  /\ remoteObjects = NoFiles
  /\ baseSnapshot = NoSnapshot
  /\ baseFileStore = NoFiles
  /\ lastSync = 0
  /\ syncExit = "none"
  /\ flags = NoFlags
  /\ reported = <<>>
  /\ syncResult = NoSyncResult
  /\ mergeResults = <<>>
  /\ written = NoFiles
  /\ uploaded = NoFiles
  /\ recorded = NoFiles
  /\ transfer = NoTransfer
  /\ fingerprints = NoFingerprints
  /\ failedDownloads = {}
  /\ textMerge = NoTextMerge
  /\ inFlight = NoInFlight
  /\ roundTrip = NoRoundTrip

Init ==
  /\ pc = "input"
  /\ base \in BaseInputs
  /\ local \in InputMaps
  /\ remote \in InputMaps
  /\ Len(base.map) + Len(local) + Len(remote) <= MaxEntries
  /\ mergeResult = NoResult
  /\ resolutions = <<>>
  /\ origin = "none"
  /\ resolved = EmptyMap
  /\ outcome = "none"
  /\ allResolved = FALSE
  /\ remerged = NoResult
  /\ SyncOff

(***************************************************************************)
(* Operations of the merge engine.                                         *)
(***************************************************************************)
\* const result = threeWayMergeEnvFile(fileName, base, local, remote)
ThreeWayMerge ==
  /\ pc = "input"
  /\ mergeResult' = threeWayMergeEnvFile(FileName, base, local, remote)
  /\ base' = AfterThreeWayMerge(base, local, remote).base
  /\ local' = AfterThreeWayMerge(base, local, remote).local
  /\ remote' = AfterThreeWayMerge(base, local, remote).remote
  /\ pc' = "merged"
  /\ UNCHANGED <<resolutions, origin, resolved, outcome, allResolved, remerged>>
  /\ UNCHANGED <<storeVars, runVars>>

\* const resolutions = resolveAllConflicts(result, strategy)
ResolveAllConflicts(strategy) ==
  /\ pc = "merged"
  /\ resolutions' = resolveAllConflicts(mergeResult, strategy)
  /\ origin' = strategy
  /\ allResolved' = allConflictsResolved(mergeResult, resolutions')
  /\ pc' = "chosen"
  /\ UNCHANGED <<base, local, remote, mergeResult, resolved, outcome, remerged>>
  /\ UNCHANGED <<storeVars, runVars>>

\* A caller (the conflict UI) supplies its own resolutions and asks whether
\* they resolve every conflict: allConflictsResolved(result, resolutions)
SupplyResolutions(rs) ==
  /\ pc = "merged"
  /\ resolutions' = rs
  /\ origin' = "caller"
  /\ allResolved' = allConflictsResolved(mergeResult, rs)
  /\ pc' = "chosen"
  /\ UNCHANGED <<base, local, remote, mergeResult, resolved, outcome, remerged>>
  /\ UNCHANGED <<storeVars, runVars>>

\* const resolved = applyResolutions(result, resolutions)
ApplyResolutions ==
  /\ pc = "chosen"
  /\ resolved' = applyResolutions(mergeResult, resolutions)
  /\ outcome' = "returned"
  /\ mergeResult' = AfterApplyResolutions(mergeResult, resolutions).mergeResult
  /\ resolutions' = AfterApplyResolutions(mergeResult, resolutions).resolutions
  /\ pc' = "resolved"
  /\ UNCHANGED <<base, local, remote, origin, allResolved, remerged>>
  /\ UNCHANGED <<storeVars, runVars>>

\* The caller invokes threeWayMergeEnvFile again on the same base, local and
\* remote, right after the first call or after applyResolutions
ThreeWayMergeAgain ==
  /\ pc \in {"merged", "resolved"}
  /\ remerged' = threeWayMergeEnvFile(FileName, base, local, remote)
  /\ base' = AfterThreeWayMerge(base, local, remote).base
  /\ local' = AfterThreeWayMerge(base, local, remote).local
  /\ remote' = AfterThreeWayMerge(base, local, remote).remote
  /\ pc' = "remerged"
  /\ UNCHANGED <<mergeResult, resolutions, origin, resolved, outcome, allResolved>>
  /\ UNCHANGED <<storeVars, runVars>>

Next ==
  \/ ThreeWayMerge
  \/ \E s \in {"local", "remote"} : ResolveAllConflicts(s)
  \/ \E rs \in ResolutionLists : SupplyResolutions(rs)
  \/ ApplyResolutions
  \/ ThreeWayMergeAgain

Spec == Init /\ [][Next]_vars

(***************************************************************************)
(* The project when the sync command is first run.                         *)
(***************************************************************************)
\* The versions a file may have: no file, or what serializeEnvFile writes for a
\* non-empty map; each with its number of entries
Versions ==
  {[content |-> Undefined, size |-> 0]}
    \cup {[content |-> serializeEnvFile(m), size |-> Len(m)] : m \in InputMaps \ {EmptyMap}}

VersionsUpTo(n) == {v \in Versions : v.size <= n}

\* The entries of the files that have content, in the order of their names
EntriesWithContent(contents) ==
  SelectSeq([i \in 1..Len(FileNameSeq) |->
               [name    |-> FileNameSeq[i],
                hash    |-> hashFile(contents[FileNameSeq[i]]),
                content |-> contents[FileNameSeq[i]]]],
            LAMBDA f : f.content # Undefined)

\* The state an earlier sync and later edits on both sides leave behind: the
\* remote store holds the remote versions, the base snapshot the base versions
SyncInitWith(versions) ==
  LET baseOf   == [f \in FileNames |-> versions[f].base]
      remoteOf == [f \in FileNames |-> versions[f].remote]
      baseList == EntriesWithContent(baseOf)
  IN
  /\ localFiles = [f \in FileNames |-> versions[f].local]
  /\ remoteObjects = remoteOf
  /\ remoteManifest = IF EntriesWithContent(remoteOf) = <<>> THEN NoManifest
                      ELSE NewManifest(EntriesWithContent(remoteOf))
  /\ baseFileStore = baseOf
  /\ baseSnapshot = IF baseList = <<>> THEN NoSnapshot
                    ELSE NewSnapshot(baseList,
                           hashFile(getManifestFingerprint(NewManifest(baseList))))
  /\ lastSync = IF baseList = <<>> THEN 0 ELSE 1

SyncInit ==
  /\ EngineOff
  /\ \E b1 \in VersionsUpTo(MaxSyncEntries) :
     \E l1 \in VersionsUpTo(MaxSyncEntries - b1.size) :
     \E r1 \in VersionsUpTo(MaxSyncEntries - b1.size - l1.size) :
     \E b2 \in VersionsUpTo(MaxSyncEntries - b1.size - l1.size - r1.size) :
     \E l2 \in VersionsUpTo(MaxSyncEntries - b1.size - l1.size - r1.size - b2.size) :
     \E r2 \in VersionsUpTo(MaxSyncEntries - b1.size - l1.size - r1.size - b2.size
                              - l2.size) :
        SyncInitWith([f \in FileNames |->
           IF f = FileNameSeq[1]
           THEN [base |-> b1.content, local |-> l1.content, remote |-> r1.content]
           ELSE [base |-> b2.content, local |-> l2.content, remote |-> r2.content]])
  /\ syncExit = "none"
  /\ flags = NoFlags
  /\ reported = <<>>
  /\ syncResult = NoSyncResult
  /\ mergeResults = <<>>
  /\ written = NoFiles
  /\ uploaded = NoFiles
  /\ recorded = NoFiles
  /\ transfer = NoTransfer
  /\ fingerprints = NoFingerprints
  /\ failedDownloads = {}
  /\ textMerge = NoTextMerge
  /\ inFlight = NoInFlight
  /\ roundTrip = NoRoundTrip

(***************************************************************************)
(* commands/sync.ts: Sync.run                                              *)
(***************************************************************************)
\* ours and theirs exclude each other; interactive has default true and no
\* negation, so it is always true
FlagSets ==
  {fl \in [ours : BOOLEAN, theirs : BOOLEAN, dryRun : BOOLEAN, interactive : {TRUE}] :
     ~(fl.ours /\ fl.theirs)}

\* The content each file of the list has, Undefined for the other files
ContentsOf(applied) ==
  [f \in FileNames |->
     IF \E i \in 1..Len(applied) : applied[i].name = f
     THEN applied[CHOOSE i \in 1..Len(applied) : applied[i].name = f].content
     ELSE Undefined]

\* What b2.downloadJson and decrypt give for each stored object when they throw
\* for the files of `failing`: the catch of step 2 leaves those files out
Downloadable(objects, failing) ==
  [f \in DOMAIN objects |-> IF f \in failing THEN Undefined ELSE objects[f]]

\* Steps 1 to 6: the merge results as displayed, and as held after step 6
SyncReported(files, manifest, objects, snapshot, store) ==
  SyncMergeResults(LocalFileList(files),
                   DownloadRemoteContents(manifest, objects),
                   loadAllBaseContents(snapshot, store))

SyncHeld(results, fl) ==
  IF HasConflicts(results) /\ fl.ours
  THEN [i \in 1..Len(results) |-> BatchResolve(results[i], "local")]
  ELSE IF HasConflicts(results) /\ fl.theirs
  THEN [i \in 1..Len(results) |-> BatchResolve(results[i], "remote")]
  ELSE results

\* Sync.run without the dry-run return of step 8
SyncExitOfNoDryRun(results, held, fl) ==
  IF HasConflicts(results) /\ ~fl.ours /\ ~fl.theirs /\ fl.interactive THEN "conflicts"
  ELSE IF ~HasChanges(held) THEN "in_sync"
  ELSE "applied"

\* Sync.run without the return that ends the interactive branch of step 6
SyncExitOfConflictsProceed(results, held, fl) ==
  IF ~HasChanges(held) THEN "in_sync"
  ELSE IF fl.dryRun THEN "dry_run"
  ELSE "applied"

\* How the run ends: at the list of conflicts, at "Already in sync", at the
\* dry run, or after applying the changes
SyncExitOf(results, held, fl) ==
  IF HasConflicts(results) /\ ~fl.ours /\ ~fl.theirs /\ fl.interactive THEN "conflicts"
  ELSE IF ~HasChanges(held) THEN "in_sync"
  ELSE IF fl.dryRun THEN "dry_run"
  ELSE "applied"

\* The calls of b2.uploadJson of a run, in the order of the code: one for each
\* file, then one for the manifest. failAt = 0: none throws; failAt = k: the
\* k-th call throws (when the run makes that many)
UploadThrows(failAt, files) == failAt \in 1..(Len(files) + 1)

\* The files uploaded before the call that throws
UploadedBefore(failAt, files) ==
  IF UploadThrows(failAt, files) THEN SubSeq(files, 1, failAt - 1) ELSE files

\* Variant of BaseSnapshotWritten: updateBaseSnapshot and saveProjectConfig
\* are called before the uploads
BaseSnapshotWrittenEarly(failAt, files) == TRUE

\* updateBaseSnapshot and saveProjectConfig come after the upload loop and the
\* upload of the manifest, inside the same try block
BaseSnapshotWritten(failAt, files) == ~UploadThrows(failAt, files)

SyncRunFrom(fl, failing, failAt, manifest, objects) ==
  \E results \in {SyncReported(localFiles, manifest,
                               Downloadable(objects, failing),
                               baseSnapshot, baseFileStore)} :
  \E held \in {SyncHeld(results, fl)} :
  \E reached \in {SyncExitOf(results, held, fl)} :
  \E applied \in {IF reached = "applied" THEN Applied(held) ELSE <<>>} :
  \E exit \in {IF reached = "applied" /\ UploadThrows(failAt, applied)
               THEN "failed" ELSE reached} :
  \E done \in {ContentsOf(applied)} :
  /\ lastSync < MaxSaves
  /\ flags' = fl
  /\ reported' = results
  /\ syncResult' = createSyncResult(results)
  /\ mergeResults' = held
  /\ syncExit' = exit
  /\ written' = done
  /\ uploaded' = ContentsOf(UploadedBefore(failAt, applied))
  /\ recorded' = IF BaseSnapshotWritten(failAt, applied) THEN done ELSE NoFiles
  /\ failedDownloads' = failing
  /\ UNCHANGED <<textMerge, roundTrip>>
  /\ UNCHANGED <<transfer, fingerprints>>
  /\ UNCHANGED engineVars
  /\ IF reached # "applied"
     THEN UNCHANGED storeVars
     ELSE \* 9. Apply changes
          /\ localFiles' = WriteFiles(localFiles, applied)
          /\ remoteObjects' = WriteFiles(remoteObjects, UploadedBefore(failAt, applied))
          /\ remoteManifest' = IF UploadThrows(failAt, applied) THEN remoteManifest
                                ELSE NewManifest(applied)
          /\ IF BaseSnapshotWritten(failAt, applied)
             THEN /\ baseFileStore' = SaveBaseFiles(baseFileStore, applied)
                  /\ baseSnapshot' =
                       NewSnapshot(applied,
                         hashFile(getManifestFingerprint(NewManifest(applied))))
                  /\ lastSync' = lastSync + 1
             ELSE UNCHANGED <<baseFileStore, baseSnapshot, lastSync>>

\* A run that uploads before another machine changes the remote store: it
\* merges the manifest and the objects the store holds
SyncRunWith(fl, failing, failAt) ==
  /\ SyncRunFrom(fl, failing, failAt, remoteManifest, remoteObjects)
  /\ UNCHANGED <<inFlight, roundTrip>>

\* A run in which every download and decryption succeeds
SyncRun(fl) == SyncRunWith(fl, {}, 0)

SyncNext == \E fl \in FlagSets : SyncRun(fl)

SyncSpec == SyncInit /\ [][SyncNext]_vars

\* A sync run in which the download or the decryption of the files of `failing`
\* throws; the specification follows the first such run from every state of
\* the stores
SyncRunFailing(fl, failing) ==
  /\ failedDownloads = {}
  /\ SyncRunWith(fl, failing, 0)

DownloadFailureNext ==
  \E fl \in FlagSets : \E failing \in (SUBSET FileNames) \ {{}} :
    SyncRunFailing(fl, failing)

DownloadFailureSpec == SyncInit /\ [][DownloadFailureNext]_vars

(***************************************************************************)
(* commands/push.ts: Push.run, and commands/pull.ts: Pull.run              *)
(***************************************************************************)
\* The state an earlier sync or pull and later edits on both sides leave
\* behind: sync and push record the fingerprint of the manifest, pull records
\* the hash of the whole manifest
TransferInitWith(versions, legacy) ==
  LET baseOf   == [f \in FileNames |-> versions[f].base]
      remoteOf == [f \in FileNames |-> versions[f].remote]
      baseList == EntriesWithContent(baseOf)
  IN
  /\ localFiles = [f \in FileNames |-> versions[f].local]
  /\ remoteObjects = remoteOf
  /\ remoteManifest = IF EntriesWithContent(remoteOf) = <<>> THEN NoManifest
                      ELSE NewManifest(EntriesWithContent(remoteOf))
  /\ baseFileStore = baseOf
  /\ baseSnapshot =
       IF baseList = <<>> THEN NoSnapshot
       ELSE NewSnapshot(baseList,
              IF legacy THEN hashFile(ManifestJson(NewManifest(baseList)))
              ELSE hashFile(getManifestFingerprint(NewManifest(baseList))))
  /\ lastSync = IF baseList = <<>> THEN 0 ELSE 1

TransferInit ==
  /\ EngineOff
  /\ \E b1 \in VersionsUpTo(MaxSyncEntries) :
     \E l1 \in VersionsUpTo(MaxSyncEntries - b1.size) :
     \E r1 \in VersionsUpTo(MaxSyncEntries - b1.size - l1.size) :
     \E b2 \in VersionsUpTo(MaxSyncEntries - b1.size - l1.size - r1.size) :
     \E l2 \in VersionsUpTo(MaxSyncEntries - b1.size - l1.size - r1.size - b2.size) :
     \E r2 \in VersionsUpTo(MaxSyncEntries - b1.size - l1.size - r1.size - b2.size
                              - l2.size) :
     \E legacy \in BOOLEAN :
        TransferInitWith([f \in FileNames |->
           IF f = FileNameSeq[1]
           THEN [base |-> b1.content, local |-> l1.content, remote |-> r1.content]
           ELSE [base |-> b2.content, local |-> l2.content, remote |-> r2.content]],
           legacy)
  /\ syncExit = "none"
  /\ flags = NoFlags
  /\ reported = <<>>
  /\ syncResult = NoSyncResult
  /\ mergeResults = <<>>
  /\ written = NoFiles
  /\ uploaded = NoFiles
  /\ recorded = NoFiles
  /\ transfer = NoTransfer
  /\ fingerprints = NoFingerprints
  /\ failedDownloads = {}
  /\ textMerge = NoTextMerge
  /\ inFlight = NoInFlight
  /\ roundTrip = NoRoundTrip

\* The stores as a command finds them
Stores ==
  [localFiles |-> localFiles, remoteManifest |-> remoteManifest,
   remoteObjects |-> remoteObjects, baseSnapshot |-> baseSnapshot,
   baseFileStore |-> baseFileStore, lastSync |-> lastSync]

\* The file arguments: none (every file), or the name of one file
FileArgs == {FileNames, {FileNameSeq[1]}}

\* How push ends: without files, at the dry run, at the remote change check,
\* or after uploading
PushExitFrom(projectFiles, force, dryRun, downloaded) ==
  IF projectFiles = <<>> THEN "nothing"
  ELSE IF dryRun THEN "dry_run"
  ELSE IF RemoteChanged(baseSnapshot, downloaded, force) THEN "blocked"
  ELSE "done"

PushExitOf(projectFiles, force, dryRun) ==
  PushExitFrom(projectFiles, force, dryRun, remoteManifest)

PushFrom(names, force, dryRun, failAt, downloaded) ==
  \E projectFiles \in {FilterByName(LocalFileList(localFiles), names)} :
  \E reached \in {PushExitFrom(projectFiles, force, dryRun, downloaded)} :
  \E entries \in {PushEntries(projectFiles)} :
  \E exit \in {IF reached = "done" /\ UploadThrows(failAt, entries)
               THEN "failed" ELSE reached} :
  \E manifest \in {IF downloaded.isNull THEN EmptyManifest ELSE downloaded} :
  /\ lastSync < MaxSaves
  /\ transfer.count < MaxTransfers
  /\ transfer' = [command |-> "push", force |-> force, dryRun |-> dryRun,
                  names |-> names, exit |-> exit, count |-> transfer.count + 1,
                  before |-> Stores]
  /\ UNCHANGED <<engineVars, syncExit, flags, reported, syncResult, mergeResults,
                 written, uploaded, recorded, fingerprints, failedDownloads,
                 textMerge, roundTrip>>
  /\ IF reached # "done"
     THEN UNCHANGED storeVars
     ELSE /\ remoteObjects' = WriteFiles(remoteObjects, UploadedBefore(failAt, entries))
          /\ remoteManifest' =
               IF UploadThrows(failAt, entries) THEN remoteManifest
               ELSE [manifest EXCEPT !.files = UpsertEntries(@, NameAndHash(entries))]
          /\ IF BaseSnapshotWritten(failAt, entries)
             THEN /\ baseFileStore' = SaveBaseFiles(baseFileStore, entries)
                  /\ baseSnapshot' =
                       NewSnapshot(entries,
                         hashFile(getManifestFingerprint(
                           [manifest EXCEPT
                              !.files = UpsertEntries(@, NameAndHash(entries))])))
                  /\ lastSync' = lastSync + 1
             ELSE UNCHANGED <<baseFileStore, baseSnapshot, lastSync>>
          /\ UNCHANGED localFiles

\* A push in which every upload succeeds
\* A push that uploads before another machine changes the remote store
PushWith(names, force, dryRun, failAt) ==
  /\ PushFrom(names, force, dryRun, failAt, remoteManifest)
  /\ UNCHANGED <<inFlight, roundTrip>>

Push(names, force, dryRun) == PushWith(names, force, dryRun, 0)

\* How pull ends: without a manifest, without files, at the local change
\* check, at the dry run, at a file that cannot be downloaded, or after
\* writing every file
PullExitOf(filesToPull, pulled, force, dryRun) ==
  IF remoteManifest.isNull THEN "no_manifest"
  ELSE IF filesToPull = <<>> THEN "nothing"
  ELSE IF HasLocalChanges(LocalFileList(localFiles),
                          loadAllBaseContents(baseSnapshot, baseFileStore), force)
  THEN "blocked"
  ELSE IF dryRun THEN "dry_run"
  ELSE IF Len(pulled) < Len(filesToPull) THEN "failed"
  ELSE "done"

Pull(names, force, dryRun) ==
  \E filesToPull \in {FilterByName(remoteManifest.files, names)} :
  \E pulled \in {PullLoop(filesToPull, remoteObjects)} :
  \E exit \in {PullExitOf(filesToPull, pulled, force, dryRun)} :
  /\ lastSync < MaxSaves
  /\ transfer.count < MaxTransfers
  /\ transfer' = [command |-> "pull", force |-> force, dryRun |-> dryRun,
                  names |-> names, exit |-> exit, count |-> transfer.count + 1,
                  before |-> Stores]
  /\ UNCHANGED <<engineVars, syncExit, flags, reported, syncResult, mergeResults,
                 written, uploaded, recorded, fingerprints, failedDownloads,
                 textMerge, inFlight, roundTrip>>
  /\ UNCHANGED <<remoteManifest, remoteObjects>>
  /\ IF exit \notin {"failed", "done"}
     THEN UNCHANGED <<localFiles, baseSnapshot, baseFileStore, lastSync>>
     ELSE /\ localFiles' = WriteFiles(localFiles, pulled)
          /\ IF exit = "failed"
             THEN UNCHANGED <<baseSnapshot, baseFileStore, lastSync>>
             ELSE /\ baseFileStore' = SaveBaseFiles(baseFileStore, pulled)
                  /\ baseSnapshot' = NewSnapshot(pulled,
                                       hashFile(ManifestJson(remoteManifest)))
                  /\ lastSync' = lastSync + 1

TransferNext ==
  \E names \in FileArgs, force \in BOOLEAN, dryRun \in BOOLEAN :
     \/ Push(names, force, dryRun)
     \/ Pull(names, force, dryRun)

TransferSpec == TransferInit /\ [][TransferNext]_vars

\* The positions at which an upload can throw: a file of the project, or the
\* manifest after them
UploadSteps == 1..(Len(FileNameSeq) + 1)

\* A sync run and a push in which the failAt-th upload throws; the
\* specification follows the first command run from every state of the stores
SyncRunUploadFailing(fl, failAt) ==
  /\ syncExit = "none"
  /\ transfer.command = "none"
  /\ SyncRunWith(fl, {}, failAt)

PushUploadFailing(names, force, dryRun, failAt) ==
  /\ syncExit = "none"
  /\ transfer.command = "none"
  /\ PushWith(names, force, dryRun, failAt)

UploadFailureNext ==
  \/ \E fl \in FlagSets, failAt \in UploadSteps : SyncRunUploadFailing(fl, failAt)
  \/ \E names \in FileArgs, force \in BOOLEAN, dryRun \in BOOLEAN,
        failAt \in UploadSteps : PushUploadFailing(names, force, dryRun, failAt)

UploadFailureSpec == SyncInit /\ [][UploadFailureNext]_vars

(***************************************************************************)
(* lib/manifest.ts: getManifestFingerprint                                 *)
(***************************************************************************)
\* The hashes of two file contents
Hashes == {hashFile(<<"x">>), hashFile(<<"y">>)}

\* The lists of manifest entries with distinct names, in every order
FileLists ==
  UNION {UNION {{[i \in 1..Len(o) |-> [name |-> o[i], hash |-> h[o[i]]]] :
                   o \in Orders(S)} :
                  h \in [S -> Hashes]} : S \in SUBSET FileNames}

Manifests ==
  {[isNull |-> FALSE, version |-> v, projectName |-> n, files |-> fs] :
     v \in {1, 2}, n \in {ProjectName, "other"}, fs \in FileLists}

FingerprintInit ==
  /\ EngineOff
  /\ localFiles = NoFiles
  /\ remoteManifest = NoManifest
  /\ remoteObjects = NoFiles
  /\ baseSnapshot = NoSnapshot
  /\ baseFileStore = NoFiles
  /\ lastSync = 0
  /\ syncExit = "none"
  /\ flags = NoFlags
  /\ reported = <<>>
  /\ syncResult = NoSyncResult
  /\ mergeResults = <<>>
  /\ written = NoFiles
  /\ uploaded = NoFiles
  /\ recorded = NoFiles
  /\ transfer = NoTransfer
  /\ failedDownloads = {}
  /\ textMerge = NoTextMerge
  /\ inFlight = NoInFlight
  /\ roundTrip = NoRoundTrip
  /\ \E first \in Manifests, second \in Manifests :
        fingerprints = [NoFingerprints EXCEPT !.first = first, !.second = second]

\* hashFile(getManifestFingerprint(manifest)) of each of the two manifests
Fingerprint ==
  /\ ~fingerprints.done
  /\ fingerprints' =
       [fingerprints EXCEPT
          !.done = TRUE,
          !.firstFingerprint = hashFile(getManifestFingerprint(fingerprints.first)),
          !.secondFingerprint = hashFile(getManifestFingerprint(fingerprints.second))]
  /\ UNCHANGED <<engineVars, storeVars, syncExit, flags, reported, syncResult,
                 mergeResults, written, uploaded, recorded, transfer,
                 failedDownloads, textMerge, inFlight, roundTrip>>

FingerprintNext == Fingerprint

FingerprintSpec == FingerprintInit /\ [][FingerprintNext]_vars

(***************************************************************************)
(* Push and sync of this machine while another machine pushes: the steps   *)
(* of one command between which the remote store can change.               *)
(***************************************************************************)
\* The contents another machine uploads: two, so that one of them differs from
\* what the remote store holds
OtherContents == {serializeEnvFile(<<<<<<"A">>, v>>>>) : v \in {<<"x">>, <<"y">>}}

\* The variables no download changes
afterDownloadVars ==
  <<engineVars, storeVars, syncExit, flags, reported, syncResult, mergeResults, written,
    uploaded, recorded, transfer, fingerprints, failedDownloads, textMerge, roundTrip>>

\* push: manifest = await b2.downloadJson(manifestPath)
PushDownload(names, force) ==
  /\ inFlight.step = "idle"
  /\ inFlight' = [NoInFlight EXCEPT !.step = "downloaded", !.command = "push",
                                    !.names = names, !.force = force,
                                    !.manifest = remoteManifest]
  /\ UNCHANGED afterDownloadVars

\* sync: manifest = await b2.downloadJson(manifestPath), then the download of
\* every file the manifest lists
SyncDownload(fl) ==
  /\ inFlight.step = "idle"
  /\ inFlight' = [NoInFlight EXCEPT !.step = "downloaded", !.command = "sync",
                                    !.flags = fl,
                                    !.manifest = remoteManifest,
                                    !.objects = remoteObjects]
  /\ UNCHANGED afterDownloadVars

\* The push of one file by another machine, from the upload of the file to
\* the upload of the manifest: it adds the entry of the file to the manifest
\* or changes it
OtherMachinePush(f, content) ==
  /\ inFlight.step = "downloaded"
  /\ inFlight.other = NoOther
  /\ remoteObjects[f] # content
  /\ remoteObjects' = [remoteObjects EXCEPT ![f] = content]
  /\ remoteManifest' =
       [(IF remoteManifest.isNull THEN EmptyManifest ELSE remoteManifest)
          EXCEPT !.files = UpsertEntry(@, [name |-> f, hash |-> hashFile(content)])]
  /\ inFlight' = [inFlight EXCEPT !.other = [name |-> f, hash |-> hashFile(content)]]
  /\ UNCHANGED <<engineVars, localFiles, baseSnapshot, baseFileStore, lastSync, syncExit,
                 flags, reported, syncResult, mergeResults, written, uploaded, recorded,
                 transfer, fingerprints, failedDownloads, textMerge, roundTrip>>

\* push from the check for remote changes on, with the manifest it downloaded
PushUpload ==
  /\ inFlight.step = "downloaded"
  /\ inFlight.command = "push"
  /\ PushFrom(inFlight.names, inFlight.force, FALSE, 0, inFlight.manifest)
  /\ inFlight' = [inFlight EXCEPT !.step = "finished"]

\* sync from the merge on, with the manifest and the files it downloaded
SyncUpload ==
  /\ inFlight.step = "downloaded"
  /\ inFlight.command = "sync"
  /\ SyncRunFrom(inFlight.flags, {}, 0, inFlight.manifest, inFlight.objects)
  /\ inFlight' = [inFlight EXCEPT !.step = "finished"]

InterleavedNext ==
  \/ \E names \in FileArgs, force \in BOOLEAN : PushDownload(names, force)
  \/ \E fl \in FlagSets : SyncDownload(fl)
  \/ \E f \in FileNames, content \in OtherContents : OtherMachinePush(f, content)
  \/ PushUpload
  \/ SyncUpload

InterleavedSpec == SyncInit /\ [][InterleavedNext]_vars

(***************************************************************************)
(* An env file parsed, serialised and parsed again (getMergedContent       *)
(* writes serializeEnvFile(merged), the next sync reads it with            *)
(* parseEnvFile).                                                          *)
(***************************************************************************)
\* The characters of the text after "=" on a line of the file
ValueChars == {" ", "#", "$", "\"", "'", "\\", "x"}

\* number of characters after "=" on the line of the first key
MaxRawLen == 3

\* The texts after "=" of at most n characters
RawValues(n) == UNION {[1..k -> ValueChars] : k \in 0..n}

\* A file with a line for A and possibly a line for B
RoundTripInit ==
  /\ EngineOff
  /\ localFiles = NoFiles
  /\ remoteManifest = NoManifest
  /\ remoteObjects = NoFiles
  /\ baseSnapshot = NoSnapshot
  /\ baseFileStore = NoFiles
  /\ lastSync = 0
  /\ syncExit = "none"
  /\ flags = NoFlags
  /\ reported = <<>>
  /\ syncResult = NoSyncResult
  /\ mergeResults = <<>>
  /\ written = NoFiles
  /\ uploaded = NoFiles
  /\ recorded = NoFiles
  /\ transfer = NoTransfer
  /\ fingerprints = NoFingerprints
  /\ failedDownloads = {}
  /\ textMerge = NoTextMerge
  /\ inFlight = NoInFlight
  /\ \E a \in RawValues(MaxRawLen), b \in RawValues(1), second \in BOOLEAN :
        roundTrip =
          [NoRoundTrip EXCEPT
             !.content = <<"A", "=">> \o a \o <<"\n">>
                           \o (IF second THEN <<"B", "=">> \o b \o <<"\n">> ELSE <<>>)]

\* sync: parseEnvFile(localContent)
ParseContent ==
  /\ roundTrip.step = "none"
  /\ roundTrip' = [roundTrip EXCEPT !.step = "parsed",
                                    !.vars = parseEnvFile(roundTrip.content)]
  /\ UNCHANGED <<engineVars, storeVars, syncExit, flags, reported, syncResult,
                 mergeResults, written, uploaded, recorded, transfer, fingerprints,
                 failedDownloads, textMerge, inFlight>>

\* getMergedContent: serializeEnvFile(result.merged); then the next sync:
\* parseEnvFile of that content
SerializeAndParse ==
  /\ roundTrip.step = "parsed"
  /\ \E serialized \in {serializeEnvFile(roundTrip.vars)} :
       roundTrip' = [roundTrip EXCEPT !.step = "reparsed",
                                      !.serialized = serialized,
                                      !.reparsed = parseEnvFile(serialized)]
  /\ UNCHANGED <<engineVars, storeVars, syncExit, flags, reported, syncResult,
                 mergeResults, written, uploaded, recorded, transfer, fingerprints,
                 failedDownloads, textMerge, inFlight>>

RoundTripNext == ParseContent \/ SerializeAndParse

RoundTripSpec == RoundTripInit /\ [][RoundTripNext]_vars

(***************************************************************************)
(* The merge of one text file as sync makes it (steps 3 and 4 of Sync.run  *)
(* for a file of kind "text", and getMergedContent).                       *)
(***************************************************************************)
TextContents == {<<>>, <<"a">>, <<"b">>, <<"a", "b">>}

\* A text file that is in the union of the local, remote and base file names
TextInit ==
  /\ EngineOff
  /\ localFiles = NoFiles
  /\ remoteManifest = NoManifest
  /\ remoteObjects = NoFiles
  /\ baseSnapshot = NoSnapshot
  /\ baseFileStore = NoFiles
  /\ lastSync = 0
  /\ syncExit = "none"
  /\ flags = NoFlags
  /\ reported = <<>>
  /\ syncResult = NoSyncResult
  /\ mergeResults = <<>>
  /\ written = NoFiles
  /\ uploaded = NoFiles
  /\ recorded = NoFiles
  /\ transfer = NoTransfer
  /\ fingerprints = NoFingerprints
  /\ failedDownloads = {}
  /\ inFlight = NoInFlight
  /\ roundTrip = NoRoundTrip
  /\ \E b \in TextContents \cup {Undefined}, l \in TextContents \cup {Undefined},
        r \in TextContents \cup {Undefined} :
        /\ b # Undefined \/ l # Undefined \/ r # Undefined
        /\ textMerge = [NoTextMerge EXCEPT !.base = b, !.local = l, !.remote = r]

\* threeWayMergeTextFile(fileName, baseContent !== undefined ? baseContent : null,
\*                       localContent, remoteContent), then getMergedContent(result)
TextMerge ==
  /\ ~textMerge.done
  /\ \E result \in {threeWayMergeTextFile(
                      "notes.txt",
                      IF textMerge.base # Undefined THEN textMerge.base ELSE NullContent,
                      textMerge.local, textMerge.remote)} :
       textMerge' = [textMerge EXCEPT !.done = TRUE,
                                      !.result = result,
                                      !.content = getMergedContent(result)]
  /\ UNCHANGED <<engineVars, storeVars, syncExit, flags, reported, syncResult,
                 mergeResults, written, uploaded, recorded, transfer, fingerprints,
                 failedDownloads, inFlight, roundTrip>>

TextNext == TextMerge

TextSpec == TextInit /\ [][TextNext]_vars

(***************************************************************************)
(* Properties of the merge engine (specification Spec).                    *)
(***************************************************************************)
\* The value of a key in the three inputs of the merge
BaseOf(k) == BaseGet(base, k)

LocalOf(k) == MapGet(local, k)

RemoteOf(k) == MapGet(remote, k)

\* The keys threeWayMergeEnvFile iterates over
UnionKeys ==
  (IF base.isNull THEN {} ELSE MapKeySet(base.map))
    \cup MapKeySet(local) \cup MapKeySet(remote)

Merged == pc \in {"merged", "chosen", "resolved"}

ConflictKeys == {mergeResult.conflicts[i].key : i \in 1..Len(mergeResult.conflicts)}

\* The decision table of the three-way merge, row by row
DecisionTable(b, l, r) ==
  CASE b = Undefined /\ l # Undefined /\ r # Undefined /\ l = r ->
         [type |-> "unchanged", value |-> l]
    [] b = Undefined /\ l # Undefined /\ r # Undefined /\ l # r ->
         [type |-> "conflict", conflictType |-> "new_key_collision"]
    [] b = Undefined /\ l # Undefined /\ r = Undefined ->
         [type |-> "auto_merged", action |-> "added_from_local", value |-> l]
    [] b = Undefined /\ l = Undefined /\ r # Undefined ->
         [type |-> "auto_merged", action |-> "added_from_remote", value |-> r]
    [] b # Undefined /\ l = b /\ r = b ->
         [type |-> "unchanged", value |-> b]
    [] b # Undefined /\ l = Undefined /\ r = Undefined ->
         [type |-> "auto_merged", action |-> "deleted", value |-> Undefined]
    [] b # Undefined /\ l = Undefined /\ r = b ->
         [type |-> "auto_merged", action |-> "deleted", value |-> Undefined]
    [] b # Undefined /\ r = Undefined /\ l = b ->
         [type |-> "auto_merged", action |-> "deleted", value |-> Undefined]
    [] b # Undefined /\ l = Undefined /\ r # Undefined /\ r # b ->
         [type |-> "conflict", conflictType |-> "edit_vs_delete"]
    [] b # Undefined /\ r = Undefined /\ l # Undefined /\ l # b ->
         [type |-> "conflict", conflictType |-> "edit_vs_delete"]
    [] b # Undefined /\ l # Undefined /\ l # b /\ r = b ->
         [type |-> "auto_merged", action |-> "updated_from_local", value |-> l]
    [] b # Undefined /\ r # Undefined /\ r # b /\ l = b ->
         [type |-> "auto_merged", action |-> "updated_from_remote", value |-> r]
    [] b # Undefined /\ l # Undefined /\ r # Undefined /\ l # b /\ r # b /\ l = r ->
         [type |-> "unchanged", value |-> l]
    [] b # Undefined /\ l # Undefined /\ r # Undefined /\ l # b /\ r # b /\ l # r ->
         [type |-> "conflict", conflictType |-> "divergent_edit"]

\* The outcome of a key as the FileMergeResult shows it
OutcomeIn(result, k) ==
  IF \E i \in 1..Len(result.conflicts) : result.conflicts[i].key = k
  THEN [type |-> "conflict",
        conflictType |-> FindConflict(result.conflicts, k).conflictType]
  ELSE IF \E i \in 1..Len(result.autoMerged) : result.autoMerged[i].key = k
  THEN LET e == result.autoMerged[CHOOSE i \in 1..Len(result.autoMerged) :
                                      result.autoMerged[i].key = k]
       IN [type |-> "auto_merged", action |-> e.action, value |-> e.value]
  ELSE [type |-> "unchanged", value |-> MapGet(result.merged, k)]

\* C1: for every key present in at least one of base, local and remote, mergeKey
\* returns the outcome of the decision table, and the merge result of the file
\* shows that outcome for the key.
C1_DecisionTable ==
  Merged =>
    \A k \in UnionKeys :
       /\ mergeKey(k, BaseOf(k), LocalOf(k), RemoteOf(k))
            = DecisionTable(BaseOf(k), LocalOf(k), RemoteOf(k))
       /\ OutcomeIn(mergeResult, k)
            = DecisionTable(BaseOf(k), LocalOf(k), RemoteOf(k))

\* A merge with a divergent edit of one key and a deletion of another
C1_Witness ==
  /\ pc = "merged"
  /\ \E i \in 1..Len(mergeResult.conflicts) :
        mergeResult.conflicts[i].conflictType = "divergent_edit"
  /\ \E i \in 1..Len(mergeResult.autoMerged) :
        mergeResult.autoMerged[i].action = "deleted"

\* C2: a key whose local value equals its remote value (both present and equal,
\* or both absent), whatever its base value, is never reported as a conflict.
C2_Convergence ==
  Merged =>
    \A k \in Keys : LocalOf(k) = RemoteOf(k) => k \notin ConflictKeys

\* Local and remote made the same change to a key of the base, ...
C2_WitnessSameEdit ==
  /\ pc = "merged"
  /\ \E k \in Keys :
        /\ BaseOf(k) # Undefined
        /\ LocalOf(k) # Undefined
        /\ LocalOf(k) # BaseOf(k)
        /\ LocalOf(k) = RemoteOf(k)

\* ... or added the same key with the same value without a base
C2_Witness ==
  /\ pc = "merged"
  /\ base.isNull
  /\ \E k \in Keys : LocalOf(k) # Undefined /\ LocalOf(k) = RemoteOf(k)
  /\ \E k \in Keys : LocalOf(k) # RemoteOf(k)

\* The resolutions that name key k
ResolutionsOf(k) == {i \in 1..Len(resolutions) : resolutions[i].key = k}

VersionOf(choice, k) ==
  CASE choice = "local"  -> LocalOf(k)
    [] choice = "remote" -> RemoteOf(k)
    [] choice = "base"   -> BaseOf(k)

\* C3: every ConflictEntry carries the key's value (or absence) in base, local
\* and remote, and applyResolutions with the one choice local, remote or base for
\* a conflicted key returns a map in which the key has that version's value, or
\* is missing when that version has no such key.
C3_NoDataLoss ==
  /\ Merged =>
       \A i \in 1..Len(mergeResult.conflicts) :
          LET c == mergeResult.conflicts[i] IN
          /\ c.baseValue = BaseOf(c.key)
          /\ c.localValue = LocalOf(c.key)
          /\ c.remoteValue = RemoteOf(c.key)
  /\ pc = "resolved" =>
       \A k \in ConflictKeys :
          \A i \in ResolutionsOf(k) :
             (/\ ResolutionsOf(k) = {i}
              /\ resolutions[i].choice \in {"local", "remote", "base"})
             => MapGet(resolved, k) = VersionOf(resolutions[i].choice, k)

\* A conflict resolved in favour of a side that does not have the key: the
\* provisional value disappears from the resolved map
C3_Witness ==
  /\ pc = "resolved"
  /\ origin = "caller"
  /\ \E k \in ConflictKeys :
        \E i \in ResolutionsOf(k) :
           /\ resolutions[i].choice \in {"remote", "base"}
           /\ VersionOf(resolutions[i].choice, k) = Undefined
           /\ MapHas(mergeResult.merged, k)
           /\ ~MapHas(resolved, k)

\* C4: resolveAllConflicts(result, s) returns exactly one resolution per open
\* conflict, each with choice s, and applyResolutions on that list gives every
\* conflicted key side s's value, or removes it when side s has no such key.
C4_BatchResolution ==
  (pc \in {"chosen", "resolved"} /\ origin \in {"local", "remote"}) =>
    /\ Len(resolutions) = Len(mergeResult.conflicts)
    /\ \A k \in ConflictKeys : Cardinality(ResolutionsOf(k)) = 1
    /\ \A i \in 1..Len(resolutions) :
          resolutions[i].key \in ConflictKeys /\ resolutions[i].choice = origin
    /\ pc = "resolved" =>
         \A k \in ConflictKeys : MapGet(resolved, k) = VersionOf(origin, k)

\* Prefer remote where remote deleted the key that local edited: the local
\* value of the preview is not left in place
C4_Witness ==
  /\ pc = "resolved"
  /\ origin = "remote"
  /\ \E k \in ConflictKeys :
        /\ RemoteOf(k) = Undefined
        /\ MapHas(mergeResult.merged, k)
        /\ ~MapHas(resolved, k)
  /\ \E k \in ConflictKeys : RemoteOf(k) # Undefined

\* A resolution of an open conflict with choice manual and no manualValue
ManualWithoutValue ==
  \E i \in 1..Len(resolutions) :
     /\ resolutions[i].choice = "manual"
     /\ resolutions[i].manualValue = Undefined
     /\ resolutions[i].key \in ConflictKeys

\* C6: applyResolutions rejects a manual resolution that has no manualValue: it
\* signals an error and returns no map.
C6_ManualWithoutValueRejected ==
  (pc = "resolved" /\ ManualWithoutValue) => outcome = "threw"

\* What the code does with such a resolution: it returns, and the key is removed
C6_Observed ==
  (pc = "resolved" /\ ManualWithoutValue /\ Len(resolutions) = 1) =>
     /\ outcome = "returned"
     /\ ~MapHas(resolved, resolutions[1].key)

\* C8: in the result of threeWayMergeEnvFile, merged holds the local value of
\* every conflicted key that local has, and no entry for a conflicted key that
\* local does not have.
C8_ProvisionalLocal ==
  Merged =>
    \A k \in ConflictKeys : MapGet(mergeResult.merged, k) = LocalOf(k)

\* Conflicts of both kinds: local deleted a key remote edited, and local and
\* remote hold different values of another key
C8_Witness ==
  /\ pc = "merged"
  /\ \E k \in ConflictKeys :
        LocalOf(k) = Undefined /\ RemoteOf(k) # Undefined /\ ~MapHas(mergeResult.merged, k)
  /\ \E k \in ConflictKeys :
        LocalOf(k) # Undefined /\ RemoteOf(k) # Undefined

\* C9: the map applyResolutions returns differs from merged only at keys that
\* are open conflicts and have a resolution whose choice is not skip.
C9_ApplyFrame ==
  pc = "resolved" =>
    \A k \in Keys :
       MapGet(resolved, k) # MapGet(mergeResult.merged, k) =>
          /\ k \in ConflictKeys
          /\ \E i \in ResolutionsOf(k) : resolutions[i].choice # "skip"

\* A resolution that names a key without conflict and carries another value
\* than merged, next to a conflict that has no resolution
C9_Witness ==
  /\ pc = "resolved"
  /\ \E i \in 1..Len(resolutions) :
        /\ resolutions[i].key \notin ConflictKeys
        /\ MapHas(mergeResult.merged, resolutions[i].key)
        /\ resolutions[i].choice = "manual"
        /\ resolutions[i].manualValue # MapGet(mergeResult.merged, resolutions[i].key)
  /\ \E k \in ConflictKeys : ResolutionsOf(k) = {}

\* A conflict resolved with skip keeps its provisional value
C9_WitnessSkip ==
  /\ pc = "resolved"
  /\ \E k \in ConflictKeys :
        /\ ResolutionsOf(k) # {}
        /\ \A i \in ResolutionsOf(k) : resolutions[i].choice = "skip"
        /\ MapHas(resolved, k)

\* C10: allConflictsResolved returns true only if every conflict has a
\* resolution with the same key whose choice is not skip, and it returns true
\* when there is no conflict.
C10_AllConflictsResolved ==
  pc \in {"chosen", "resolved"} =>
    /\ allResolved =>
         \A k \in ConflictKeys :
            \E i \in ResolutionsOf(k) : resolutions[i].choice # "skip"
    /\ ConflictKeys = {} => allResolved

\* A conflict whose only resolution is skip: not resolved
C10_Witness ==
  /\ pc = "chosen"
  /\ allResolved = FALSE
  /\ \E k \in ConflictKeys :
        /\ ResolutionsOf(k) # {}
        /\ \A i \in ResolutionsOf(k) : resolutions[i].choice = "skip"

\* Every conflict has a resolution that is not skip: resolved
C10_WitnessResolved ==
  /\ pc = "chosen"
  /\ origin = "caller"
  /\ allResolved = TRUE
  /\ ConflictKeys # {}

\* The keys threeWayMergeEnvFile passes to mergeKey
PassedKeys == SeqToSet(AllKeys(base, local, remote))

\* The number of entries of a list of conflicts or auto-merges that name key k
EntriesOf(list, k) == Cardinality({i \in 1..Len(list) : list[i].key = k})

\* C12: for every key threeWayMergeEnvFile passes to mergeKey (a key present in
\* at least one of base, local and remote), mergeKey returns exactly one of
\* unchanged, auto_merged and conflict, and never the result of the branch
\* "neither side has it": unchanged with no value.
C12_Totality ==
  Merged =>
    /\ PassedKeys = UnionKeys
    /\ \A k \in PassedKeys :
          LET result == mergeKey(k, BaseOf(k), LocalOf(k), RemoteOf(k)) IN
          /\ result.type \in {"unchanged", "auto_merged", "conflict"}
          /\ ~(result.type = "unchanged" /\ result.value = Undefined)
          /\ EntriesOf(mergeResult.conflicts, k) + EntriesOf(mergeResult.autoMerged, k)
               = (IF result.type = "unchanged" THEN 0 ELSE 1)
          /\ result.type = "unchanged" => MapHas(mergeResult.merged, k)

\* A merge with a base: one key is new and on the local side only, another key
\* of the base is on neither side any more
C12_Witness ==
  /\ pc = "merged"
  /\ ~base.isNull
  /\ \E k \in PassedKeys : BaseOf(k) = Undefined /\ RemoteOf(k) = Undefined
  /\ \E k \in PassedKeys : LocalOf(k) = Undefined /\ RemoteOf(k) = Undefined

\* The value a resolution chooses for its key
ChosenBy(resolution) ==
  IF resolution.choice = "manual" THEN resolution.manualValue
  ELSE VersionOf(resolution.choice, resolution.key)

\* C13: an empty string is a present value for mergeKey and for
\* threeWayMergeEnvFile: a key with an empty value has the outcome of the
\* decision table (no base, local "" and remote absent: added_from_local, and
\* merged has the key with ""; base "" and local "" and remote absent:
\* deleted), and applyResolutions sets a key to "" when the chosen value is "".
C13_EmptyStringIsPresent ==
  /\ Merged =>
       \A k \in UnionKeys :
          LET b == BaseOf(k)
              l == LocalOf(k)
              r == RemoteOf(k)
              result == mergeKey(k, b, l, r)
              kept == IF result.type = "conflict" THEN l ELSE result.value
          IN <<>> \in {b, l, r} =>
               /\ OutcomeIn(mergeResult, k) = DecisionTable(b, l, r)
               /\ (b = Undefined /\ l = <<>> /\ r = Undefined) =>
                     /\ OutcomeIn(mergeResult, k)
                          = [type |-> "auto_merged", action |-> "added_from_local",
                             value |-> <<>>]
                     /\ MapHas(mergeResult.merged, k)
               /\ (b = <<>> /\ l = <<>> /\ r = Undefined) =>
                     /\ OutcomeIn(mergeResult, k)
                          = [type |-> "auto_merged", action |-> "deleted",
                             value |-> Undefined]
                     /\ ~MapHas(mergeResult.merged, k)
               /\ kept = <<>> =>
                     MapHas(mergeResult.merged, k) /\ MapGet(mergeResult.merged, k) = <<>>
  /\ pc = "resolved" =>
       \A k \in ConflictKeys :
          \A i \in ResolutionsOf(k) :
             (/\ ResolutionsOf(k) = {i}
              /\ resolutions[i].choice # "skip"
              /\ ChosenBy(resolutions[i]) = <<>>)
             => MapHas(resolved, k) /\ MapGet(resolved, k) = <<>>

\* The two merges the claim names, ...
C13_Witness ==
  /\ pc = "merged"
  /\ \E k \in UnionKeys :
        BaseOf(k) = Undefined /\ LocalOf(k) = <<>> /\ RemoteOf(k) = Undefined
  /\ \E k \in UnionKeys :
        BaseOf(k) = <<>> /\ LocalOf(k) = <<>> /\ RemoteOf(k) = Undefined

\* ... and a conflict resolved in favour of a side whose value is ""
C13_WitnessResolved ==
  /\ pc = "resolved"
  /\ \E k \in ConflictKeys :
        \E i \in ResolutionsOf(k) :
           /\ resolutions[i].choice \in {"remote", "base"}
           /\ ChosenBy(resolutions[i]) = <<>>
           /\ MapGet(mergeResult.merged, k) # <<>>
           /\ MapGet(resolved, k) = <<>>

\* The pairs of a map, whatever their insertion order
PairSet(m) == {m[i] : i \in 1..Len(m)}

\* The maps that are equal to m as mappings
Reorderings(m) == {m2 \in InputMaps : PairSet(m2) = PairSet(m)}

BaseReorderings(b) ==
  IF b.isNull THEN {b} ELSE {Some(m2) : m2 \in Reorderings(b.map)}

\* The results of threeWayMergeEnvFile for the inputs of the state taken in
\* each of their insertion orders
ReorderedResults ==
  {threeWayMergeEnvFile(FileName, b2, l2, r2) :
     b2 \in BaseReorderings(base), l2 \in Reorderings(local),
     r2 \in Reorderings(remote)}

\* C19: two calls of threeWayMergeEnvFile whose base, local and remote are
\* equal as mappings but list their keys in different insertion orders
\* return equal conflicts and equal autoMerged lists.
C19_OrderByKeysAlone ==
  pc # "input" =>
    \A r \in ReorderedResults :
      /\ r.conflicts = mergeResult.conflicts
      /\ r.autoMerged = mergeResult.autoMerged

\* What the code gives: the same entries, in the order in which the keys were
\* first inserted in base, then local, then remote
C19_Observed ==
  pc # "input" =>
    /\ \A r \in ReorderedResults :
         /\ PairSet(r.conflicts) = PairSet(mergeResult.conflicts)
         /\ PairSet(r.autoMerged) = PairSet(mergeResult.autoMerged)
         /\ PairSet(r.merged) = PairSet(mergeResult.merged)
         /\ r.status = mergeResult.status
    /\ \A i, j \in 1..Len(mergeResult.conflicts) :
         i < j => \E m, n \in 1..Len(AllKeys(base, local, remote)) :
                    /\ m < n
                    /\ AllKeys(base, local, remote)[m] = mergeResult.conflicts[i].key
                    /\ AllKeys(base, local, remote)[n] = mergeResult.conflicts[j].key

\* Two conflicts reported in the order B, A because local lists B first
C19_InsertionOrderShows ==
  /\ pc = "merged"
  /\ Len(mergeResult.conflicts) = 2
  /\ mergeResult.conflicts[1].key = <<"B">>
  /\ \E r \in ReorderedResults : r.conflicts[1].key = <<"A">>

C20_WitnessDirect ==
  /\ pc = "remerged"
  /\ outcome = "none"
  /\ remerged = mergeResult
  /\ mergeResult.conflicts # <<>>

(***************************************************************************)
(* Properties of the sync command (specification SyncSpec).                *)
(***************************************************************************)
\* The side a batch flag chooses for a conflict
ChosenValue(fl, conflict) ==
  IF fl.theirs THEN conflict.remoteValue ELSE conflict.localValue

\* The content holds the value for the key, or omits the key when the value
\* is undefined; a file that is not there omits every key
ContentHolds(content, key, value) ==
  MapGet(IF content = Undefined THEN EmptyMap ELSE parseEnvFile(content), key) = value

\* C5: when sync runs with --theirs (--ours) and completes, then for every key
\* the merge reported as a conflict, the content written to the local file,
\* uploaded to the remote store and recorded in the base snapshot holds the
\* remote (local) value of the key, or omits the key when that side deleted it.
C5_BatchWritesChosenSide ==
  (syncExit = "applied" /\ (flags.ours \/ flags.theirs)) =>
    \A i \in 1..Len(reported) :
      \A j \in 1..Len(reported[i].conflicts) :
        LET conflict == reported[i].conflicts[j]
            name     == reported[i].fileName
        IN /\ ContentHolds(written[name], conflict.key, ChosenValue(flags, conflict))
           /\ ContentHolds(uploaded[name], conflict.key, ChosenValue(flags, conflict))
           /\ ContentHolds(recorded[name], conflict.key, ChosenValue(flags, conflict))

\* The same for --ours alone, where the preview of threeWayMergeEnvFile
\* already holds the local values
C5_Observed ==
  (syncExit = "applied" /\ flags.ours) =>
    \A i \in 1..Len(reported) :
      \A j \in 1..Len(reported[i].conflicts) :
        ContentHolds(written[reported[i].fileName], reported[i].conflicts[j].key,
                     reported[i].conflicts[j].localValue)

\* The invariant of FileMergeResult.status
StatusConsistent(r) ==
  /\ r.status = "conflicted" <=> Len(r.conflicts) > 0
  /\ r.status = "auto_merged" <=> (Len(r.conflicts) = 0 /\ Len(r.autoMerged) > 0)
  /\ r.status = "clean" <=> (Len(r.conflicts) = 0 /\ Len(r.autoMerged) = 0)

\* C7: every FileMergeResult returned by threeWayMergeEnvFile, and every
\* FileMergeResult as sync holds it after --ours/--theirs batch resolution,
\* has status conflicted iff conflicts is non-empty, auto_merged iff conflicts
\* is empty and autoMerged is non-empty, and clean otherwise.
C7_StatusInvariant ==
  /\ \A i \in 1..Len(reported) : StatusConsistent(reported[i])
  /\ \A i \in 1..Len(mergeResults) : StatusConsistent(mergeResults[i])

\* A run with a batch flag that turned a conflicted result with auto-merges
\* into an auto_merged one
C7_Witness ==
  /\ flags.ours \/ flags.theirs
  /\ \E i \in 1..Len(reported) :
        /\ reported[i].status = "conflicted"
        /\ Len(reported[i].autoMerged) > 0
        /\ mergeResults[i].status = "auto_merged"

\* A run with a batch flag that turned a conflicted result into a clean one
C7_WitnessClean ==
  /\ flags.ours \/ flags.theirs
  /\ \E i \in 1..Len(reported) :
        /\ reported[i].status = "conflicted"
        /\ mergeResults[i].status = "clean"

\* C11: createSyncResult returns hasConflicts = true iff at least one file has
\* a non-empty conflicts list, requiresUserAction equal to hasConflicts, and
\* files equal to the list it was given.
C11_CreateSyncResult ==
  syncExit # "none" =>
    /\ syncResult.hasConflicts
         <=> \E i \in 1..Len(reported) : reported[i].conflicts # <<>>
    /\ syncResult.requiresUserAction = syncResult.hasConflicts
    /\ syncResult.files = reported

\* A run whose files were auto-merged without any conflict: no user action
C11_Witness ==
  /\ syncExit # "none"
  /\ \E i \in 1..Len(reported) : reported[i].autoMerged # <<>>
  /\ \A i \in 1..Len(reported) : reported[i].conflicts = <<>>
  /\ ~syncResult.requiresUserAction

\* A run with an auto-merged file and a conflicted file: hasConflicts is true
C11_WitnessConflict ==
  /\ syncExit # "none"
  /\ \E i \in 1..Len(reported) : reported[i].status = "auto_merged"
  /\ \E i \in 1..Len(reported) : reported[i].conflicts # <<>>
  /\ syncResult.hasConflicts
  /\ syncResult.requiresUserAction

(***************************************************************************)
(* Properties of push and pull (specification TransferSpec).               *)
(***************************************************************************)
\* A base snapshot exists, and the manifest in the remote store has neither
\* the fingerprint nor the legacy hash the snapshot recorded
Drifted(stores) ==
  /\ ~stores.baseSnapshot.isNull
  /\ ~stores.remoteManifest.isNull
  /\ hashFile(getManifestFingerprint(stores.remoteManifest))
       # stores.baseSnapshot.remoteManifestHash
  /\ hashFile(ManifestJson(stores.remoteManifest))
       # stores.baseSnapshot.remoteManifestHash

C14_WitnessLegacy ==
  /\ transfer.command = "push"
  /\ ~transfer.force
  /\ transfer.exit = "done"
  /\ ~transfer.before.baseSnapshot.isNull
  /\ ~transfer.before.remoteManifest.isNull
  /\ transfer.before.baseSnapshot.remoteManifestHash
       = hashFile(ManifestJson(transfer.before.remoteManifest))

\* The content the base snapshot holds of a file, as loadAllBaseContents gives it
BaseContentIn(stores, f) ==
  MapGet(loadAllBaseContents(stores.baseSnapshot, stores.baseFileStore), f)

\* Some local file differs from its base content or has no base entry
UnpushedChange(stores) ==
  \E f \in FileNames :
     /\ stores.localFiles[f] # Undefined
     /\ stores.localFiles[f] # BaseContentIn(stores, f)

\* C15: pull without --force overwrites a local file only when its content
\* equals its content in the base snapshot; whenever some local file differs
\* from its base content or has no base entry, pull writes no local file and
\* leaves the base snapshot unchanged.
C15_PullGuard ==
  (transfer.command = "pull" /\ ~transfer.force) =>
    /\ \A f \in FileNames :
          (/\ transfer.before.localFiles[f] # Undefined
           /\ localFiles[f] # transfer.before.localFiles[f])
          => transfer.before.localFiles[f] = BaseContentIn(transfer.before, f)
    /\ UnpushedChange(transfer.before) =>
          /\ localFiles = transfer.before.localFiles
          /\ baseSnapshot = transfer.before.baseSnapshot
          /\ baseFileStore = transfer.before.baseFileStore

\* What the code does: the guard works when the base snapshot holds some file
C15_Observed ==
  (/\ transfer.command = "pull"
   /\ ~transfer.force
   /\ MapSize(loadAllBaseContents(transfer.before.baseSnapshot,
                                  transfer.before.baseFileStore)) > 0)
  => /\ \A f \in FileNames :
           (/\ transfer.before.localFiles[f] # Undefined
            /\ localFiles[f] # transfer.before.localFiles[f])
           => transfer.before.localFiles[f] = BaseContentIn(transfer.before, f)
     /\ UnpushedChange(transfer.before) =>
           /\ transfer.exit \in {"no_manifest", "nothing", "blocked"}
           /\ localFiles = transfer.before.localFiles
           /\ baseSnapshot = transfer.before.baseSnapshot
           /\ baseFileStore = transfer.before.baseFileStore

\* A pull stopped at the local change check
C15_ObservedWitness ==
  /\ transfer.command = "pull"
  /\ ~transfer.force
  /\ ~transfer.dryRun
  /\ transfer.exit = "blocked"
  /\ \E f \in FileNames : remoteObjects[f] # Undefined /\ remoteObjects[f] # localFiles[f]

\* What the code does without a base snapshot: a pull without --force that
\* replaces the content of a local file that was never pushed
C15_OverwriteWithoutBase ==
  /\ transfer.command = "pull"
  /\ ~transfer.force
  /\ transfer.exit = "done"
  /\ transfer.before.baseSnapshot.isNull
  /\ \E f \in FileNames :
        /\ transfer.before.localFiles[f] # Undefined
        /\ localFiles[f] # transfer.before.localFiles[f]

(***************************************************************************)
(* Properties of sync runs with failing downloads (specification           *)
(* DownloadFailureSpec).                                                   *)
(***************************************************************************)

\* The manifest lists the file
Listed(manifest, f) ==
  /\ ~manifest.isNull
  /\ \E i \in 1..Len(manifest.files) : manifest.files[i].name = f

\* The keys the content of a file holds, none for a file that does not exist
HeldKeys(content) ==
  IF content = Undefined THEN {}
  ELSE {MapKeys(parseEnvFile(content))[i] : i \in 1..Len(parseEnvFile(content))}

\* The step is a sync run in which the download of f, a file the remote
\* manifest lists and of which the project directory holds some key, threw
DownloadFailed(f) ==
  /\ f \in failedDownloads'
  /\ Listed(remoteManifest, f)
  /\ HeldKeys(localFiles[f]) # {}

\* C17: when the download or the decryption of a file the remote manifest
\* lists fails during sync, the file in the project directory keeps every key
\* it held before the run, and the remote manifest still lists the file after
\* the run.
C17_DownloadFailureKeepsContent ==
  [][\A f \in FileNames :
       DownloadFailed(f) =>
         /\ HeldKeys(localFiles[f]) \subseteq HeldKeys(localFiles'[f])
         /\ Listed(remoteManifest', f)]_vars

\* The part of C17 about the keys of the local file alone
C17_KeepsLocalKeys ==
  [][\A f \in FileNames :
       DownloadFailed(f) =>
         HeldKeys(localFiles[f]) \subseteq HeldKeys(localFiles'[f])]_vars

\* The part of C17 about the remote manifest alone
C17_KeepsManifestEntry ==
  [][\A f \in FileNames : DownloadFailed(f) => Listed(remoteManifest', f)]_vars

(***************************************************************************)
(* Properties of the base snapshot after sync (specification SyncSpec).    *)
(***************************************************************************)

\* The last sync run went past the conflict check and left no conflict open
EndedWithoutConflicts ==
  /\ syncExit \in {"in_sync", "applied"}
  /\ \A i \in 1..Len(mergeResults) : mergeResults[i].conflicts = <<>>

\* The project directory and the remote store hold the same content of f
Agreed(f) ==
  /\ localFiles[f] # Undefined
  /\ Listed(remoteManifest, f)
  /\ remoteObjects[f] = localFiles[f]

\* C18: after every sync run that ends with no open conflicts, the base
\* snapshot holds, for every file whose content the project directory and the
\* remote store both hold, that content.
C18_BaseHoldsAgreedContent ==
  EndedWithoutConflicts =>
    \A f \in FileNames : Agreed(f) => BaseContentIn(Stores, f) = localFiles[f]

\* What the code gives: the base snapshot holds the agreed content after the
\* runs that reach step 9
C18_Observed ==
  (EndedWithoutConflicts /\ syncExit = "applied") =>
    \A f \in FileNames : Agreed(f) => BaseContentIn(Stores, f) = localFiles[f]

\* A first sync that finds equal local and remote content ends "Already in
\* sync" and leaves the project without base snapshot
C18_InSyncWithoutBase ==
  /\ syncExit = "in_sync"
  /\ baseSnapshot.isNull
  /\ \E f \in FileNames : Agreed(f)

\* A run that applies its merge records the agreed content as base
C18_ObservedWitness ==
  /\ EndedWithoutConflicts
  /\ syncExit = "applied"
  /\ \E f \in FileNames : Agreed(f) /\ BaseContentIn(Stores, f) = localFiles[f]

(***************************************************************************)
(* Properties of the manifest fingerprint (specification FingerprintSpec). *)
(***************************************************************************)
\* The (name, hash) pairs of a manifest
PairsOf(manifest) ==
  {<<manifest.files[i].name, manifest.files[i].hash>> : i \in 1..Len(manifest.files)}

\* C16: two manifests with the same version, the same projectName and the
\* same set of (name, hash) pairs, in any order, have equal fingerprints; two
\* manifests that differ in version, projectName, or the name or hash of a
\* file have different fingerprints.
C16_FingerprintOrderIndependent ==
  fingerprints.done =>
    (fingerprints.firstFingerprint = fingerprints.secondFingerprint
       <=> /\ fingerprints.first.version = fingerprints.second.version
           /\ fingerprints.first.projectName = fingerprints.second.projectName
           /\ PairsOf(fingerprints.first) = PairsOf(fingerprints.second))

\* Two manifests that list the same two files in different orders
C16_Witness ==
  /\ fingerprints.done
  /\ fingerprints.first.files # fingerprints.second.files
  /\ Len(fingerprints.first.files) = 2
  /\ PairsOf(fingerprints.first) = PairsOf(fingerprints.second)
  /\ fingerprints.firstFingerprint = fingerprints.secondFingerprint

\* Two manifests that differ in the hash of one file only
C16_WitnessDifferent ==
  /\ fingerprints.done
  /\ fingerprints.first.version = fingerprints.second.version
  /\ fingerprints.first.projectName = fingerprints.second.projectName
  /\ Len(fingerprints.first.files) = 2
  /\ Len(fingerprints.second.files) = 2
  /\ [i \in 1..2 |-> fingerprints.first.files[i].name]
       = [i \in 1..2 |-> fingerprints.second.files[i].name]
  /\ fingerprints.first.files[1] = fingerprints.second.files[1]
  /\ fingerprints.first.files[2].hash # fingerprints.second.files[2].hash
  /\ fingerprints.firstFingerprint # fingerprints.secondFingerprint

(***************************************************************************)
(* Properties of the return points of sync (specification SyncSpec).       *)
(***************************************************************************)

\* The step writes nothing: the project directory, the remote store, the base
\* snapshot and lastSync stay as they were
NothingApplied ==
  /\ UNCHANGED storeVars
  /\ written' = NoFiles
  /\ uploaded' = NoFiles
  /\ recorded' = NoFiles

\* C21: a sync run with --dry-run, whatever the merge outcome and whatever of
\* --ours and --theirs is given, writes no local file, uploads no file and no
\* manifest, and leaves the base snapshot and lastSync unchanged.
C21_DryRunAppliesNothing ==
  [][flags'.dryRun => NothingApplied]_vars

\* A dry run with --theirs over a conflicted file and an auto-merge, which
\* would have been applied without --dry-run
C21_Witness ==
  /\ flags.dryRun
  /\ flags.theirs
  /\ syncExit = "dry_run"
  /\ \E i \in 1..Len(reported) : reported[i].status = "conflicted"
  /\ \E i \in 1..Len(reported) : reported[i].autoMerged # <<>>

\* A dry run over auto-merges only
C21_WitnessAutoMerged ==
  /\ flags.dryRun
  /\ ~flags.ours /\ ~flags.theirs
  /\ syncExit = "dry_run"
  /\ \A i \in 1..Len(reported) : reported[i].status # "conflicted"

(***************************************************************************)
(* Properties of the merge of a text file (specification TextSpec).        *)
(***************************************************************************)

\* The resolved state of the text file is "deleted"
TextDeleted ==
  /\ Len(textMerge.result.autoMerged) = 1
  /\ textMerge.result.autoMerged[1].action = "deleted"

\* The content sync takes for a version that may be absent
TextOrNull(v) == IF v # Undefined THEN v ELSE NullContent

C22_WitnessDeleted ==
  /\ textMerge.done
  /\ TextDeleted
  /\ textMerge.remote # Undefined
  /\ textMerge.content = NullContent

\* An empty text file that only remote has
C22_WitnessEmpty ==
  /\ textMerge.done
  /\ textMerge.local = Undefined
  /\ textMerge.remote = <<>>
  /\ textMerge.content = <<>>

\* A conflict in which local deleted the file that remote edited
C22_WitnessLocalDeleted ==
  /\ textMerge.done
  /\ textMerge.result.status = "conflicted"
  /\ textMerge.local = Undefined
  /\ textMerge.content = NullContent

UploadFailed ==
  \/ syncExit' = "failed"
  \/ transfer'.command = "push" /\ transfer'.exit = "failed"

\* The step is a sync run or a push that went through all its uploads
UploadsSucceeded ==
  \/ syncExit' = "applied"
  \/ transfer'.command = "push" /\ transfer'.exit = "done"

\* C24: in sync and in push the base snapshot is written only after every
\* file upload and the manifest upload succeeded; a run in which an upload
\* fails ends in error with the base snapshot, its base files and lastSync
\* unchanged.
C24_BaseSnapshotAfterUploads ==
  [][/\ UploadFailed =>
          /\ baseSnapshot' = baseSnapshot
          /\ baseFileStore' = baseFileStore
          /\ lastSync' = lastSync
     /\ (baseSnapshot' # baseSnapshot \/ lastSync' # lastSync) => UploadsSucceeded]_vars

\* A sync run that had uploaded a file when a later upload threw, in a project
\* that has a base snapshot
C24_Witness ==
  /\ syncExit = "failed"
  /\ uploaded # NoFiles
  /\ written # NoFiles
  /\ recorded = NoFiles
  /\ ~baseSnapshot.isNull

\* A push that had uploaded a file when a later upload threw
C24_WitnessPush ==
  /\ transfer.command = "push"
  /\ transfer.exit = "failed"
  /\ remoteObjects # transfer.before.remoteObjects
  /\ remoteManifest = transfer.before.remoteManifest
  /\ baseSnapshot = transfer.before.baseSnapshot

\* A sync run and a push without failure write the base snapshot
C24_WitnessWritten ==
  /\ syncExit = "applied"
  /\ recorded # NoFiles

(***************************************************************************)
(* Further properties of threeWayMergeEnvFile (specification Spec).        *)
(***************************************************************************)

\* C25: every key of merged is a key of local or of remote, and its value in
\* merged is the value local has for it or the value remote has for it;
\* merged holds no key that only base has and no value that neither side has.
C25_MergedFromLocalOrRemote ==
  pc # "input" =>
    \A i \in 1..Len(mergeResult.merged) :
      /\ mergeResult.merged[i][2] # Undefined
      /\ mergeResult.merged[i][2] \in {LocalOf(mergeResult.merged[i][1]),
                                       RemoteOf(mergeResult.merged[i][1])}

\* A merge with a base key that both sides deleted, a base key that both sides
\* kept, and so a merged map that holds one of the two base keys
C25_Witness ==
  /\ pc = "merged"
  /\ ~base.isNull
  /\ \E k \in Keys : /\ BaseOf(k) # Undefined
                     /\ LocalOf(k) = Undefined
                     /\ RemoteOf(k) = Undefined
                     /\ ~MapHas(mergeResult.merged, k)
  /\ \E k \in Keys : /\ BaseOf(k) # Undefined
                     /\ MapGet(mergeResult.merged, k) = BaseOf(k)

\* A key whose base value no side holds any more: merged has the remote value
C25_WitnessUpdated ==
  /\ pc = "merged"
  /\ \E k \in Keys : /\ BaseOf(k) # Undefined
                     /\ LocalOf(k) = BaseOf(k)
                     /\ RemoteOf(k) \notin {Undefined, BaseOf(k)}
                     /\ MapGet(mergeResult.merged, k) = RemoteOf(k)

\* The keys of the entries of a list of conflicts or auto-merges
EntryKeys(entries) == [i \in 1..Len(entries) |-> entries[i].key]

\* No element occurs twice in the sequence
NoRepeats(seq) == \A i, j \in 1..Len(seq) : seq[i] = seq[j] => i = j

\* C26: each key of the union of base, local and remote is classified once:
\* it is at most once in conflicts, at most once in autoMerged, never in
\* both; a key auto-merged as deleted is absent from merged, and a key
\* auto-merged with another action is in merged with the value of its entry.
C26_ClassifiedOnce ==
  pc # "input" =>
    /\ NoRepeats(EntryKeys(mergeResult.conflicts))
    /\ NoRepeats(EntryKeys(mergeResult.autoMerged))
    /\ NoRepeats(MapKeys(mergeResult.merged))
    /\ \A i \in 1..Len(mergeResult.conflicts), j \in 1..Len(mergeResult.autoMerged) :
          mergeResult.conflicts[i].key # mergeResult.autoMerged[j].key
    /\ \A i \in 1..Len(mergeResult.conflicts) : mergeResult.conflicts[i].key \in UnionKeys
    /\ \A j \in 1..Len(mergeResult.autoMerged) :
          /\ mergeResult.autoMerged[j].key \in UnionKeys
          /\ IF mergeResult.autoMerged[j].action = "deleted"
             THEN /\ mergeResult.autoMerged[j].value = Undefined
                  /\ ~MapHas(mergeResult.merged, mergeResult.autoMerged[j].key)
             ELSE /\ mergeResult.autoMerged[j].value # Undefined
                  /\ MapGet(mergeResult.merged, mergeResult.autoMerged[j].key)
                       = mergeResult.autoMerged[j].value

\* A merge with mixed outcomes: one key in conflict, held by both sides, and
\* one key auto-merged as deleted
C26_Witness ==
  /\ pc = "merged"
  /\ Len(mergeResult.conflicts) = 1
  /\ Len(mergeResult.autoMerged) = 1
  /\ mergeResult.autoMerged[1].action = "deleted"
  /\ LocalOf(mergeResult.conflicts[1].key) # Undefined
  /\ RemoteOf(mergeResult.conflicts[1].key) # Undefined

\* A key that base, local and remote all hold and an added key
C26_WitnessAdded ==
  /\ pc = "merged"
  /\ \E k \in Keys : BaseOf(k) # Undefined /\ LocalOf(k) # Undefined /\ RemoteOf(k) # Undefined
  /\ Len(mergeResult.autoMerged) = 1
  /\ mergeResult.autoMerged[1].action = "added_from_remote"

(***************************************************************************)
(* Properties of consecutive sync runs (specification SyncSpec).           *)
(***************************************************************************)

\* C27: when a sync run ended by applying its merge and no file was edited
\* since, the next sync run finds every file clean, ends at "Already in sync"
\* and applies nothing.
C27_SecondSyncInSync ==
  [][syncExit = "applied" =>
       /\ syncExit' = "in_sync"
       /\ \A i \in 1..Len(reported') : reported'[i].status = "clean"
       /\ NothingApplied]_vars

\* What the code gives: the second run is in sync when the first run left no
\* file without merged content
C27_Observed ==
  [][(syncExit = "applied"
        /\ \A f \in FileNames : localFiles[f] # Undefined => written[f] # Undefined) =>
       /\ syncExit' = "in_sync"
       /\ \A i \in 1..Len(reported') : reported'[i].status = "clean"
       /\ NothingApplied]_vars

\* A run, made when a sync had been applied before, that uploads a file all of
\* whose keys it merges as added from local
C27_DeletionUndone ==
  /\ syncExit = "applied"
  /\ lastSync = 2
  /\ \E i \in 1..Len(reported) :
        /\ reported[i].autoMerged # <<>>
        /\ \A j \in 1..Len(reported[i].autoMerged) :
              reported[i].autoMerged[j].action = "added_from_local"
        /\ uploaded[reported[i].fileName] # Undefined

(***************************************************************************)
(* Properties of push and pull of some files (specification TransferSpec). *)
(***************************************************************************)

\* C28: after a push or a pull restricted to some of the files,
\* loadAllBaseContents returns for every other file the base content it
\* returned before the command.
C28_OtherBasesKept ==
  transfer.command \in {"push", "pull"} =>
    \A f \in FileNames \ transfer.names :
       BaseContentIn(Stores, f) = BaseContentIn(transfer.before, f)

\* What the code gives: the base of the other files is kept by the commands
\* that end before updateBaseSnapshot, and lost by those that reach it
C28_Observed ==
  transfer.command \in {"push", "pull"} =>
    \A f \in FileNames \ transfer.names :
       BaseContentIn(Stores, f) =
         IF transfer.exit = "done" THEN Undefined ELSE BaseContentIn(transfer.before, f)

\* A push of one file after which the other file has no base any more
C28_BaseLost ==
  /\ transfer.command = "push"
  /\ transfer.exit = "done"
  /\ transfer.count = 1
  /\ \E f \in FileNames \ transfer.names :
        /\ BaseContentIn(transfer.before, f) # Undefined
        /\ BaseContentIn(Stores, f) = Undefined

\* A pull of one file after which the other file has no base any more
C28_BaseLostByPull ==
  /\ transfer.command = "pull"
  /\ transfer.exit = "done"
  /\ transfer.count = 1
  /\ \E f \in FileNames \ transfer.names :
        /\ BaseContentIn(transfer.before, f) # Undefined
        /\ BaseContentIn(Stores, f) = Undefined

(***************************************************************************)
(* Properties of interleaved commands (specification InterleavedSpec).     *)
(***************************************************************************)
\* The hash the manifest lists for a file, the hash of no content without an
\* entry
ListedHash(manifest, f) ==
  IF Listed(manifest, f)
  THEN (CHOOSE e \in {manifest.files[i] : i \in 1..Len(manifest.files)} : e.name = f).hash
  ELSE hashFile(Undefined)

\* This machine's command uploaded its manifest after another machine's push
UploadedAfterOther ==
  /\ inFlight.step = "finished"
  /\ inFlight.other # NoOther
  /\ \/ inFlight.command = "push" /\ transfer.exit = "done"
     \/ inFlight.command = "sync" /\ syncExit = "applied"

\* The files this machine merged or pushed
HandledNames ==
  IF inFlight.command = "push"
  THEN {f \in inFlight.names : localFiles[f] # Undefined}
  ELSE {mergeResults[i].fileName : i \in 1..Len(mergeResults)}

\* C29: an entry another machine adds to or changes in the remote manifest
\* between this machine's download of the manifest and its upload of the
\* manifest is in the manifest with the other machine's hash after the
\* upload, unless this machine merged or pushed that file.
C29_NoLostUpdate ==
  (UploadedAfterOther /\ inFlight.other.name \notin HandledNames) =>
     ListedHash(remoteManifest, inFlight.other.name) = inFlight.other.hash

\* What the code gives: the manifest this machine uploads lists for such a
\* file what the manifest it downloaded listed
C29_Observed ==
  (UploadedAfterOther /\ inFlight.other.name \notin HandledNames) =>
     /\ ListedHash(remoteManifest, inFlight.other.name)
          = ListedHash(inFlight.manifest, inFlight.other.name)
     /\ ListedHash(remoteManifest, inFlight.other.name) # inFlight.other.hash

\* A push of .env after which the entry another machine added for .env.local
\* is gone from the manifest
C29_LostByPush ==
  /\ UploadedAfterOther
  /\ inFlight.command = "push"
  /\ inFlight.other.name \notin HandledNames
  /\ ~Listed(remoteManifest, inFlight.other.name)

\* A sync after which the entry another machine added is gone from the manifest
C29_LostBySync ==
  /\ UploadedAfterOther
  /\ inFlight.command = "sync"
  /\ inFlight.other.name \notin HandledNames
  /\ ~Listed(remoteManifest, inFlight.other.name)

(***************************************************************************)
(* Properties of the round trip (specification RoundTripSpec).             *)
(***************************************************************************)
\* C30: for every map m that parseEnvFile returns, empty values and values
\* with spaces, '#', '$', quotes or backslashes included,
\* parseEnvFile(serializeEnvFile(m)) has the keys and the values of m.
C30_RoundTripLossless ==
  roundTrip.step = "reparsed" => PairSet(roundTrip.reparsed) = PairSet(roundTrip.vars)

\* What the code gives: the round trip keeps m exactly when no value of m has
\* a double quote or a backslash; formatEnvValue escapes both and parseEnvFile
\* takes the quotes off without undoing the escapes
C30_Observed ==
  roundTrip.step = "reparsed" =>
    (PairSet(roundTrip.reparsed) = PairSet(roundTrip.vars)
       <=> \A i \in 1..Len(roundTrip.vars) :
              /\ ~Includes(roundTrip.vars[i][2], "\"")
              /\ ~Includes(roundTrip.vars[i][2], "\\"))

\* A value with a backslash that comes back with two
C30_BackslashDoubled ==
  /\ roundTrip.step = "reparsed"
  /\ MapGet(roundTrip.vars, <<"A">>) = <<"x", "\\", "x">>
  /\ MapGet(roundTrip.reparsed, <<"A">>) = <<"x", "\\", "\\", "x">>

\* Values that are empty or hold a space, '#', '$' or a single quote and come
\* back unchanged
C30_QuotedValueKept ==
  /\ roundTrip.step = "reparsed"
  /\ MapGet(roundTrip.vars, <<"B">>) = <<>>
  /\ \E c \in {" ", "#", "$", "'"} : MapGet(roundTrip.vars, <<"A">>) = <<"x", c, "x">>
  /\ PairSet(roundTrip.reparsed) = PairSet(roundTrip.vars)

====
